---- MODULE Spec2Model ----
(***************************************************************************)
(* Route resolution of the routing-demo application: the route tree the   *)
(* repository declares through its app/ directory conventions, and the    *)
(* resolver that maps a navigation event onto it (matched chain, params,  *)
(* parallel-slot assignments, interception, props of layouts and pages).  *)
(***************************************************************************)
EXTENDS Integers, Sequences, FiniteSets, TLC

\* Longest target path (in segments) a navigation event carries.
MaxLen == 4

\* interceptDepth of the (...) marker: "root level", written as infinity.
RootDepth == 99

None == "none"

----------------------------------------------------------------------------
(* The route tree.  One record per directory of app/.                      *)

Node(p, k, s, pg, lay) ==
    [parent |-> p, kind |-> k, seg |-> s, hasPage |-> pg, hasLayout |-> lay,
     hasDefault |-> FALSE, hasNotFound |-> FALSE,
     hasError |-> FALSE, hasTemplate |-> FALSE,
     interceptDepth |-> -1, targetKind |-> None]

Intercept(p, d, tk, s) ==
    [parent |-> p, kind |-> "intercept", seg |-> s, hasPage |-> TRUE,
     hasLayout |-> FALSE, hasDefault |-> FALSE, hasNotFound |-> FALSE,
     hasError |-> FALSE, hasTemplate |-> FALSE,
     interceptDepth |-> d, targetKind |-> tk]

WithDefault(n) == [n EXCEPT !.hasDefault = TRUE]
WithNotFound(n) == [n EXCEPT !.hasNotFound = TRUE]
WithError(n) == [n EXCEPT !.hasError = TRUE]
WithTemplate(n) == [n EXCEPT !.hasTemplate = TRUE]

\* The declared tree: directory id :> node.
BaseTree ==
       ("root"      :> WithNotFound(Node(None, "static", "", TRUE, TRUE)))
    @@ ("main"      :> Node("root", "group", "(main)", FALSE, TRUE))
    @@ ("auth"      :> WithTemplate(Node("root", "group", "(auth)", FALSE, TRUE)))
    @@ ("login"     :> Node("auth", "static", "login", TRUE, FALSE))
    @@ ("register"  :> Node("auth", "static", "register", TRUE, FALSE))
    @@ ("lib"       :> Node("root", "private", "_lib", TRUE, FALSE))
    @@ ("libUtil"   :> Node("lib", "static", "util", TRUE, FALSE))
    @@ ("counter"   :> Node("root", "static", "counter", TRUE, FALSE))
    @@ ("products"  :> Node("main", "static", "products", TRUE, FALSE))
    @@ ("productId" :> Node("products", "dynamic", "productId", TRUE, FALSE))
    @@ ("featured"  :> Node("products", "static", "featured", TRUE, FALSE))
    @@ ("reviews"   :> Node("productId", "static", "reviews", FALSE, FALSE))
    @@ ("reviewId"  :> WithNotFound(Node("reviews", "dynamic", "reviewId", TRUE, FALSE)))
    @@ ("docs"      :> Node("root", "static", "docs", FALSE, FALSE))
    @@ ("slug"      :> Node("docs", "catchAll", "slug", TRUE, FALSE))
    @@ ("intro"     :> Node("docs", "static", "intro", TRUE, FALSE))
    @@ ("articles"  :> Node("root", "static", "articles", TRUE, FALSE))
    @@ ("articleId" :> Node("articles", "dynamic", "articleId", TRUE, TRUE))
    @@ ("cd"        :> Node("main", "static", "complex-dashboard", TRUE, TRUE))
    @@ ("notifications" :> Node("cd", "parallelSlot", "@notifications", TRUE, FALSE))
    @@ ("archived"  :> Node("notifications", "static", "archived", TRUE, FALSE))
    @@ ("revenue"   :> Node("cd", "parallelSlot", "@revenue", TRUE, FALSE))
    @@ ("users"     :> Node("cd", "parallelSlot", "@users", TRUE, FALSE))
    @@ ("x"         :> WithNotFound(Node("root", "static", "x", FALSE, TRUE)))
    @@ ("y"         :> Node("x", "static", "y", TRUE, FALSE))
    @@ ("a"         :> WithDefault(Node("x", "parallelSlot", "@a", FALSE, FALSE)))
    @@ ("b"         :> Node("x", "parallelSlot", "@b", FALSE, FALSE))
    @@ ("feed"      :> Node("main", "static", "photo-feed", TRUE, TRUE))
    @@ ("photoId"   :> Node("feed", "dynamic", "id", TRUE, FALSE))
    @@ ("photos"    :> Node("feed", "static", "photos", FALSE, FALSE))
    @@ ("modal"     :> WithDefault(Node("feed", "parallelSlot", "@modal", FALSE, FALSE)))
    @@ ("modalId"   :> Intercept("modal", 0, "dynamic", "id"))
    @@ ("f1"        :> Node("root", "static", "f1", TRUE, FALSE))
    @@ ("f2"        :> Node("f1", "static", "f2", TRUE, FALSE))
    @@ ("innerF2"   :> Node("f2", "static", "inner-f2", TRUE, FALSE))
    @@ ("f3"        :> Node("root", "static", "f3", TRUE, FALSE))
    @@ ("f4"        :> Node("root", "static", "f4", TRUE, FALSE))
    @@ ("f5"        :> Node("root", "static", "f5", TRUE, FALSE))
    @@ ("if2"       :> Intercept("f1", 0, "static", "f2"))
    @@ ("if3"       :> Intercept("f1", 1, "static", "f3"))
    @@ ("if4"       :> Intercept("f2", 2, "static", "f4"))
    @@ ("if5"       :> Intercept("innerF2", RootDepth, "static", "f5"))
    @@ ("icounter"  :> Intercept("feed", 1, "static", "counter"))
    @@ ("error"     :> WithError(Node("main", "static", "error", TRUE, FALSE)))
    @@ ("error1"    :> Node("error", "static", "error1", TRUE, TRUE))
    @@ ("error2"    :> Node("error1", "static", "error2", FALSE, FALSE))
    @@ ("error3"    :> Node("error2", "static", "error3", TRUE, FALSE))
    @@ ("error4"    :> WithError(Node("error", "static", "error4", TRUE, TRUE)))

Nodes == DOMAIN BaseTree

\* The directories of the dashboard that take a default.tsx.
DefaultCandidates == {"cd", "revenue", "users"}

\* A build of the declaration: the base tree, with default.tsx present in
\* the directories of D and page.tsx present under _lib iff libPage.
BuildTree(D, libPage) ==
    [n \in Nodes |->
        IF n \in D THEN WithDefault(BaseTree[n])
        ELSE IF n \in {"lib", "libUtil"} THEN [BaseTree[n] EXCEPT !.hasPage = libPage]
        ELSE BaseTree[n]]

----------------------------------------------------------------------------
(* Navigation events.                                                      *)

\* Target paths, as ordered segments ("/docs/a/b" is <<"docs","a","b">>).
BasePaths ==
    { <<"products", "42", "reviews", "7", "edit">>,
      <<"products", "featured", "reviews", "7">>,
      <<"docs", "a", "b", "c", "d">>,
      <<"docs", "intro">>,
      <<"login">>, <<"register">>, <<"(auth)", "login">>, <<"(main)", "products">>,
      <<"_lib", "util">>, <<"counter">>, <<"nope">>,
      <<"articles", "breaking-news-123">>,
      <<"complex-dashboard", "archived", "old">>, <<"complex-dashboard", "@users">>,
      <<"x", "y">>, <<"x", "nope">>,
      <<"photo-feed", "3">>, <<"photo-feed", "photos">>,
      <<"f1", "f2", "inner-f2">>, <<"f3">>, <<"f4">>, <<"f5">> }

Min(i, j) == IF i < j THEN i ELSE j

Paths == UNION { { SubSeq(p, 1, k) : k \in 0..Min(Len(p), MaxLen) } : p \in BasePaths }

\* Pages a client transition can start from.
OriginPaths == { <<"f1">>, <<"f1", "f2">>, <<"photo-feed">> }

\* The lang query parameter of the article links; None when there is no query string.
Queries == { None, "en", "es" }

NavigationEvents ==
    { [targetPath |-> p, originPath |-> o, hasOrigin |-> TRUE, isClientTransition |-> c, query |-> q] :
        p \in Paths, o \in OriginPaths, c \in BOOLEAN, q \in Queries }
    \cup
    { [targetPath |-> p, originPath |-> <<>>, hasOrigin |-> FALSE, isClientTransition |-> c, query |-> q] :
        p \in Paths, c \in BOOLEAN, q \in Queries }

----------------------------------------------------------------------------
(* 4.1 Route tree matcher, one level.                                      *)

Kids(t, NS, n) == { c \in NS : t[c].parent = n }

\* A private folder taken for an ordinary one.
SegmentKind_PrivateAsStatic(t, c) ==
    IF t[c].kind = "private" THEN "static" ELSE t[c].kind

\* A route group taken for an ordinary folder, its label for a URL segment.
SegmentKind_GroupAsStatic(t, c) ==
    IF t[c].kind = "group" THEN "static" ELSE t[c].kind

\* What the matcher takes directory c for, from the naming convention:
\* folder, [param], [...param], (group), _private, @slot, (.)intercept.
SegmentKind(t, c) == t[c].kind

\* The children that can take a URL segment below n: group children are
\* descended into without taking a segment; private, slot and intercept
\* children are not visited.
RECURSIVE UrlKids(_, _, _)
UrlKids(t, NS, n) ==
    { c \in Kids(t, NS, n) : SegmentKind(t, c) \in {"static", "dynamic", "catchAll"} }
    \cup UNION { UrlKids(t, NS, g) : g \in { c \in Kids(t, NS, n) : SegmentKind(t, c) = "group" } }

\* The tie-break turned round: a dynamic child shadows its literal siblings.
PickChild_DynamicFirst(t, NS, n, s) ==
    LET K   == UrlKids(t, NS, n)
        lit == { c \in K : SegmentKind(t, c) = "static" /\ t[c].seg = s }
        dyn == { c \in K : SegmentKind(t, c) = "dynamic" }
        ca  == { c \in K : SegmentKind(t, c) = "catchAll" }
    IN  IF dyn # {} THEN CHOOSE c \in dyn : TRUE
        ELSE IF ca # {} THEN CHOOSE c \in ca : TRUE
        ELSE IF lit # {} THEN CHOOSE c \in lit : TRUE
        ELSE None

\* The child chosen for segment s below n, or None: literal, else dynamic, else catch-all.
PickChild(t, NS, n, s) ==
    LET K   == UrlKids(t, NS, n)
        lit == { c \in K : SegmentKind(t, c) = "static" /\ t[c].seg = s }
        dyn == { c \in K : SegmentKind(t, c) = "dynamic" }
        ca  == { c \in K : SegmentKind(t, c) = "catchAll" }
    IN  IF lit # {} THEN CHOOSE c \in lit : TRUE
        ELSE IF dyn # {} THEN CHOOSE c \in dyn : TRUE
        ELSE IF ca # {} THEN CHOOSE c \in ca : TRUE
        ELSE None

\* The directories from the one below `top` down to n (top excluded).
RECURSIVE Below(_, _, _)
Below(t, top, n) ==
    IF n = top \/ n = None THEN <<>> ELSE Append(Below(t, top, t[n].parent), n)

\* The folder's own name bound in place of the URL's segment.
Bind_DeclaredName(t, c, segs) ==
    IF t[c].kind = "dynamic" THEN (t[c].seg :> t[c].seg)
    ELSE IF t[c].kind = "catchAll" THEN (t[c].seg :> segs)
    ELSE <<>>

\* The catch-all losing the segment that selected it.
Bind_CatchAllTail(t, c, segs) ==
    IF t[c].kind = "dynamic" THEN (t[c].seg :> Head(segs))
    ELSE IF t[c].kind = "catchAll" THEN (t[c].seg :> Tail(segs))
    ELSE <<>>

\* A static folder binding a parameter under its own name.
Bind_StaticToo(t, c, segs) ==
    IF t[c].kind = "dynamic" THEN (t[c].seg :> Head(segs))
    ELSE IF t[c].kind = "catchAll" THEN (t[c].seg :> segs)
    ELSE IF t[c].kind = "static" THEN (t[c].seg :> Head(segs))
    ELSE <<>>

\* 4.2 Parameter extraction: what node c binds when it takes the segments `segs`.
Bind(t, c, segs) ==
    IF t[c].kind = "dynamic" THEN (t[c].seg :> Head(segs))
    ELSE IF t[c].kind = "catchAll" THEN (t[c].seg :> segs)
    ELSE <<>>

\* The matcher run to the end from directory n over `segs` (used inside a slot's
\* subtree and for the origin path): ok iff every segment was taken and the
\* node reached has a page; chain = the directories entered below n; last =
\* the deepest node attempted; rest = the segments left when it stopped.
RECURSIVE Walk(_, _, _, _)
Walk(t, NS, n, segs) ==
    IF segs = <<>>
    THEN [ok |-> t[n].hasPage, chain |-> <<>>, last |-> n, rest |-> <<>>, params |-> <<>>]
    ELSE LET c == PickChild(t, NS, n, Head(segs))
         IN  IF c = None
             THEN [ok |-> FALSE, chain |-> <<>>, last |-> n, rest |-> segs, params |-> <<>>]
             ELSE LET r == Walk(t, NS, c, IF t[c].kind = "catchAll" THEN <<>> ELSE Tail(segs))
                  IN  [ok |-> r.ok, chain |-> Below(t, n, c) \o r.chain, last |-> r.last,
                       rest |-> r.rest, params |-> Bind(t, c, segs) @@ r.params]

----------------------------------------------------------------------------
(* 4.4 Interception.                                                       *)

IsUrlNode(t, n) == n = "root" \/ t[n].kind \in {"static", "dynamic", "catchAll"}

\* The nearest directory at or above n that stands for a URL segment
\* (route groups and slots are not levels).
RECURSIVE UrlDir(_, _)
UrlDir(t, n) == IF IsUrlNode(t, n) THEN n ELSE UrlDir(t, t[n].parent)

\* d URL levels above directory n.
RECURSIVE Up(_, _, _)
Up(t, n, d) == IF d = 0 \/ n = "root" THEN n ELSE Up(t, UrlDir(t, t[n].parent), d - 1)

\* The directory an intercept node is declared in.
DeclDir(t, i) == UrlDir(t, t[i].parent)

\* The directory whose child the marker of i addresses.
TargetParent(t, i) ==
    IF t[i].interceptDepth = RootDepth THEN "root"
    ELSE Up(t, DeclDir(t, i), t[i].interceptDepth)

\* The real nodes intercept node i shadows (the actual route).
RealOf(t, NS, i) ==
    { c \in UrlKids(t, NS, TargetParent(t, i)) :
        t[c].kind = t[i].targetKind /\ t[c].seg = t[i].seg }

InterceptNodes(t) == { n \in DOMAIN t : t[n].kind = "intercept" }

\* isClientTransition not looked at: any event that names an origin qualifies.
ClientOrigin_AnyOrigin(nav) == nav.hasOrigin

\* Interception is considered only for a client transition with an origin.
ClientOrigin(nav) == nav.isClientTransition /\ nav.hasOrigin

\* Any origin taken as consistent.
OriginConsistent_AnyOrigin(t, i, nav) == TRUE

\* The root-level marker held to the origin rule of the others.
OriginConsistent_RootLikeRest(t, i, nav) ==
    LET o == Walk(t, DOMAIN t, "root", nav.originPath)
    IN  o.ok /\ o.last = DeclDir(t, i)

\* The origin is consistent with intercept node i: the origin path resolves to
\* the directory i is declared in; the root-level marker takes any origin.
OriginConsistent(t, i, nav) ==
    \/ t[i].interceptDepth = RootDepth
    \/ LET o == Walk(t, DOMAIN t, "root", nav.originPath)
       IN  o.ok /\ o.last = DeclDir(t, i)

\* The intercept node that shadows the matched leaf for this event, or None.
SelectIntercept(t, nav, leaf) ==
    LET C == { i \in InterceptNodes(t) : leaf \in RealOf(t, DOMAIN t, i) /\ OriginConsistent(t, i, nav) }
    IN  IF C = {} THEN None ELSE CHOOSE i \in C : TRUE

\* The intercepting folder's own path kept as the URL of an intercepted navigation.
ResolvedUrl_InterceptPath(nav, icpt) ==
    IF icpt = None THEN nav.targetPath ELSE Append(nav.originPath, icpt)

\* The URL kept for history and back-navigation.
ResolvedUrl(nav, icpt) == nav.targetPath

----------------------------------------------------------------------------
(* 4.3 Parallel slots.                                                     *)

\* Number of URL segments consumed on reaching directory n.
RECURSIVE UrlDepth(_, _)
UrlDepth(t, n) ==
    IF n = "root" \/ n = None THEN 0
    ELSE UrlDepth(t, t[n].parent) + (IF t[n].kind \in {"static", "dynamic"} THEN 1 ELSE 0)

NamedSlots(t, NS, n) == { c \in Kids(t, NS, n) : t[c].kind = "parallelSlot" }

Range(f) == { f[i] : i \in DOMAIN f }

\* The slot (if any) whose subtree holds node n.
RECURSIVE SlotOf(_, _)
SlotOf(t, n) ==
    IF n = None \/ n = "root" THEN None
    ELSE IF t[n].kind = "parallelSlot" THEN n ELSE SlotOf(t, t[n].parent)

Unresolved == [kind |-> "unresolved", node |-> None]

\* Only the slot root's default.tsx looked at.
NearestDefault_RootOnly(t, n, top) ==
    IF t[top].hasDefault THEN [kind |-> "default", node |-> top]
    ELSE [kind |-> "unresolved", node |-> None]

\* The nearest default.tsx from the deepest attempted node up to the slot's root.
RECURSIVE NearestDefault(_, _, _)
NearestDefault(t, n, top) ==
    IF t[n].hasDefault THEN [kind |-> "default", node |-> n]
    ELSE IF n = top \/ n = "root" THEN Unresolved
    ELSE NearestDefault(t, t[n].parent, top)

\* A named slot s of layout directory L, for the target path.
NamedSlotOutcome(t, NS, s, target, icpt) ==
    LET L      == t[s].parent
        d      == UrlDepth(t, L)
        suffix == SubSeq(target, d + 1, Len(target))
        w      == Walk(t, NS, s, suffix)
    IN  IF icpt # None /\ SlotOf(t, icpt) = s THEN [kind |-> "intercept", node |-> icpt]
        ELSE IF w.ok THEN [kind |-> "page", node |-> w.last]
        ELSE NearestDefault(t, w.last, s)

\* The deepest directory of the chain that declares named slots, or None.
SlotOwner(t, NS, chain) ==
    LET I == { i \in DOMAIN chain : NamedSlots(t, NS, chain[i]) # {} }
    IN  IF I = {} THEN None ELSE chain[CHOOSE i \in I : \A j \in I : j <= i]

\* The implicit children slot.
ChildrenOutcome(t, NS, chain, last, ok, icpt, nav) ==
    IF ok
    THEN IF icpt = None THEN [kind |-> "page", node |-> last]
         ELSE IF SlotOf(t, icpt) = None THEN [kind |-> "intercept", node |-> icpt]
         ELSE [kind |-> "kept", node |-> Walk(t, NS, "root", nav.originPath).last]
    ELSE LET L == SlotOwner(t, NS, chain)
         IN  IF L = None THEN Unresolved ELSE NearestDefault(t, last, L)

\* Every slot the matched chain declares.
SlotsOf(t, NS, chain) == UNION { NamedSlots(t, NS, chain[i]) : i \in DOMAIN chain }

\* A slot giving up once a sibling resolved before it came out unresolved.
ResolveOneSlot_SiblingFails(t, NS, s, chain, last, ok, icpt, nav, done) ==
    IF \E o \in DOMAIN done : done[o].kind = "unresolved" THEN Unresolved
    ELSE IF s = "children" THEN ChildrenOutcome(t, NS, chain, last, ok, icpt, nav)
    ELSE NamedSlotOutcome(t, NS, s, nav.targetPath, icpt)

\* One slot, resolved on its own: `done` is the assignment made so far.
ResolveOneSlot(t, NS, s, chain, last, ok, icpt, nav, done) ==
    IF s = "children" THEN ChildrenOutcome(t, NS, chain, last, ok, icpt, nav)
    ELSE NamedSlotOutcome(t, NS, s, nav.targetPath, icpt)

----------------------------------------------------------------------------
(* Props handed to the components of the matched chain.                    *)

\* searchParams handed to the layout as well.
LayoutProps_WithSearchParams(params, query) == [params |-> params, searchParams |-> query]

\* layout.tsx receives { children, params }.
LayoutProps(params, query) == [params |-> params]

\* page.tsx receives { params, searchParams }.
PageProps(params, query) == [params |-> params, searchParams |-> query]

\* Every failure handed to the global not-found.
NotFoundBoundary_GlobalOnly(t, n) == "root"

\* The nearest not-found boundary at or above n (the root's is the global one).
RECURSIVE NotFoundBoundary(_, _)
NotFoundBoundary(t, n) ==
    IF n = "root" \/ t[n].hasNotFound THEN n ELSE NotFoundBoundary(t, t[n].parent)

NoResult == [status |-> None]

----------------------------------------------------------------------------
(* The resolver, one navigation at a time.                                 *)

VARIABLES
    tree,             \* the route tree, built once
    nav,              \* the NavigationEvent being resolved
    phase,            \* Idle, Matching, InterceptCheck, SlotResolution, Resolved, NotFound
    cur,              \* directory the matcher stands on
    rest,             \* segments not yet taken
    chain,            \* directories matched so far, root first
    params,           \* path parameters bound so far
    matchFail,        \* the matcher found no child (or no page) and stopped
    intercepted,      \* intercept node selected, or None
    pending,          \* slots not yet resolved
    slotAssignments,  \* slot :> outcome, for the slots resolved
    order,            \* slots in the order they were resolved
    result,           \* the ResolvedRoute, once the navigation has ended
    prev,             \* the previous navigation's event, ResolvedRoute and first slot resolved
    history,          \* the history stack: the paths visited, oldest first
    hpos,             \* index of the current entry in history (0: no browser session)
    lastOp,           \* the router call that started the navigation, and the location it left
    screen,           \* what is rendered, NoScreen while a navigation is resolved
    layoutState,      \* layout.tsx directory :> value of its input, for the mounted layouts
    templateState,    \* template.tsx directory :> value of its input, for the mounted templates
    other,            \* a second resolution running on the same tree, NoOther when there is none
    declared,         \* the static declaration handed to the build, None where the tree is given
    pathname          \* what usePathname() gives the navbar, as pieces of text

browser == <<history, hpos, lastOp, screen, layoutState, templateState>>

\* What the resolver and the browser session leave alone.
aside == <<other, declared, pathname>>

vars == <<tree, nav, phase, cur, rest, chain, params, matchFail, intercepted,
          pending, slotAssignments, order, result, prev, browser, aside>>

NoOp == [op |-> None, from |-> <<>>, prior |-> None]
NoScreen == [status |-> None]

\* The resolver on its own: no history, nothing rendered.
NoBrowser ==
    /\ history = <<>> /\ hpos = 0 /\ lastOp = NoOp
    /\ screen = NoScreen /\ layoutState = <<>> /\ templateState = <<>>

NoOther == [phase |-> None]

\* One resolver, a tree already built, no navbar.
NoAside == other = NoOther /\ declared = None /\ pathname = <<>>

\* The builds considered: the dashboard as first declared (no default.tsx), with
\* every default.tsx (one under archived/ too), and with @revenue/default.tsx
\* forgotten and _lib emptied of its pages.
Trees ==
    { BuildTree({}, TRUE),
      BuildTree(DefaultCandidates \cup {"notifications", "archived"}, TRUE),
      BuildTree(DefaultCandidates \ {"revenue"}, FALSE) }

Fresh ==
    /\ phase = "Idle"
    /\ cur = "root" /\ rest = <<>> /\ chain = <<>> /\ params = <<>>
    /\ matchFail = FALSE /\ intercepted = None
    /\ pending = {} /\ slotAssignments = <<>> /\ order = <<>>
    /\ result = NoResult

Init ==
    /\ tree \in Trees
    /\ nav \in NavigationEvents
    /\ Fresh
    /\ prev = NoResult
    /\ NoBrowser
    /\ NoAside

\* Idle -> Matching: split the path, stand on the root.
StartMatching ==
    /\ phase = "Idle"
    /\ phase' = "Matching"
    /\ cur' = "root" /\ rest' = nav.targetPath /\ chain' = <<"root">> /\ params' = <<>>
    /\ UNCHANGED <<browser, aside, tree, nav, matchFail, intercepted, pending, slotAssignments, order, result, prev>>

\* Some way down from n takes every segment of `segs` and ends on a page,
\* whatever child is tried at each level.
RECURSIVE SomeWalk(_, _, _, _)
SomeWalk(t, NS, n, segs) ==
    IF segs = <<>> THEN t[n].hasPage
    ELSE \E c \in UrlKids(t, NS, n) :
            \/ t[c].kind = "static" /\ t[c].seg = Head(segs) /\ SomeWalk(t, NS, c, Tail(segs))
            \/ t[c].kind = "dynamic" /\ SomeWalk(t, NS, c, Tail(segs))
            \/ t[c].kind = "catchAll" /\ t[c].hasPage

\* A matcher that fails as soon as it enters a directory without a page.
MatchStep_NeedsPage ==
    /\ phase = "Matching" /\ ~matchFail /\ rest # <<>>
    /\ LET c == PickChild(tree, Nodes, cur, Head(rest))
       IN  IF c = None
           THEN /\ matchFail' = TRUE
                /\ UNCHANGED <<cur, rest, chain, params>>
           ELSE /\ cur' = c
                /\ chain' = chain \o Below(tree, cur, c)
                /\ params' = params @@ Bind(tree, c, rest)
                /\ rest' = IF tree[c].kind = "catchAll" THEN <<>> ELSE Tail(rest)
                /\ matchFail' = ~tree[c].hasPage
    /\ UNCHANGED <<browser, aside, tree, nav, phase, intercepted, pending, slotAssignments, order, result, prev>>

\* A matcher that looks ahead: a child is taken only if the segments left can
\* be matched beneath it, so a literal child gives way to its dynamic sibling.
MatchStep_LookAhead ==
    /\ phase = "Matching" /\ ~matchFail /\ rest # <<>>
    /\ LET good == { k \in UrlKids(tree, Nodes, cur) :
                       \/ tree[k].kind = "static" /\ tree[k].seg = Head(rest)
                                                  /\ SomeWalk(tree, Nodes, k, Tail(rest))
                       \/ tree[k].kind = "dynamic" /\ SomeWalk(tree, Nodes, k, Tail(rest))
                       \/ tree[k].kind = "catchAll" /\ tree[k].hasPage }
           c    == IF good # {} THEN CHOOSE k \in good : \A j \in good : tree[j].kind = "static" => tree[k].kind = "static"
                   ELSE PickChild(tree, Nodes, cur, Head(rest))
       IN  IF c = None
           THEN /\ matchFail' = TRUE
                /\ UNCHANGED <<cur, rest, chain, params>>
           ELSE /\ cur' = c
                /\ chain' = chain \o Below(tree, cur, c)
                /\ params' = params @@ Bind(tree, c, rest)
                /\ rest' = IF tree[c].kind = "catchAll" THEN <<>> ELSE Tail(rest)
                /\ UNCHANGED matchFail
    /\ UNCHANGED <<browser, aside, tree, nav, phase, intercepted, pending, slotAssignments, order, result, prev>>

\* Take one path segment.
MatchStep ==
    /\ phase = "Matching" /\ ~matchFail /\ rest # <<>>
    /\ LET c == PickChild(tree, Nodes, cur, Head(rest))
       IN  IF c = None
           THEN /\ matchFail' = TRUE
                /\ UNCHANGED <<cur, rest, chain, params>>
           ELSE /\ cur' = c
                /\ chain' = chain \o Below(tree, cur, c)
                /\ params' = params @@ Bind(tree, c, rest)
                /\ rest' = IF tree[c].kind = "catchAll" THEN <<>> ELSE Tail(rest)
                /\ UNCHANGED matchFail
    /\ UNCHANGED <<browser, aside, tree, nav, phase, intercepted, pending, slotAssignments, order, result, prev>>

\* Every navigation sent through InterceptCheck.
MatchDone_AlwaysIntercept ==
    /\ phase = "Matching" /\ (matchFail \/ rest = <<>>)
    /\ matchFail' = (matchFail \/ ~tree[cur].hasPage)
    /\ phase' = "InterceptCheck"
    /\ pending' = {}
    /\ UNCHANGED <<browser, aside, tree, nav, cur, rest, chain, params, intercepted, slotAssignments, order, result, prev>>

\* The matcher has stopped: a page request needs a page at the node reached.
MatchDone ==
    /\ phase = "Matching" /\ (matchFail \/ rest = <<>>)
    /\ matchFail' = (matchFail \/ ~tree[cur].hasPage)
    /\ phase' = IF ClientOrigin(nav) THEN "InterceptCheck" ELSE "SlotResolution"
    /\ pending' = IF ClientOrigin(nav) THEN {} ELSE SlotsOf(tree, Nodes, chain) \cup {"children"}
    /\ UNCHANGED <<browser, aside, tree, nav, cur, rest, chain, params, intercepted, slotAssignments, order, result, prev>>

InterceptCheck ==
    /\ phase = "InterceptCheck"
    /\ intercepted' = IF matchFail THEN None ELSE SelectIntercept(tree, nav, cur)
    /\ phase' = "SlotResolution"
    /\ pending' = SlotsOf(tree, Nodes, chain) \cup {"children"}
    /\ UNCHANGED <<browser, aside, tree, nav, cur, rest, chain, params, matchFail, slotAssignments, order, result, prev>>

\* Resolve one pending slot; any pending slot may go next.
ResolveSlot(s) ==
    /\ phase = "SlotResolution" /\ s \in pending
    /\ slotAssignments' = slotAssignments @@
          (s :> ResolveOneSlot(tree, Nodes, s, chain, cur, ~matchFail, intercepted, nav, slotAssignments))
    /\ pending' = pending \ {s}
    /\ order' = Append(order, s)
    /\ UNCHANGED <<browser, aside, tree, nav, phase, cur, rest, chain, params, matchFail, intercepted, result, prev>>

\* One unresolved slot failing the whole resolution.
Served_NoUnresolved(ok, slots) ==
    /\ ok \/ \E s \in DOMAIN slots : s # "children" /\ slots[s].kind = "page"
    /\ \A s \in DOMAIN slots : slots[s].kind # "unresolved"

\* The path is served if the matcher reached a page or a named slot has a page for it.
Served(ok, slots) ==
    ok \/ \E s \in DOMAIN slots : s # "children" /\ slots[s].kind = "page"

MakeResult(t, ev, ch, last, ps, ok, icpt, slots) ==
    IF Served(ok, slots)
    THEN [status |-> "Resolved", chain |-> ch, params |-> ps,
          matchedLeaf |-> IF icpt # None THEN icpt ELSE last,
          slotAssignments |-> slots,
          url |-> ResolvedUrl(ev, icpt),
          layoutProps |-> [n \in { m \in Range(ch) : t[m].hasLayout } |-> LayoutProps(ps, ev.query)],
          pageProps |-> PageProps(ps, ev.query),
          boundary |-> None]
    ELSE [status |-> "NotFound", chain |-> ch, params |-> ps,
          matchedLeaf |-> "NotFound",
          slotAssignments |-> slots,
          url |-> ResolvedUrl(ev, icpt),
          layoutProps |-> <<>>,
          pageProps |-> <<>>,
          boundary |-> NotFoundBoundary(t, last)]

\* A failed resolution sent back to the matcher instead of ending in NotFound.
Finish_Restart ==
    /\ phase = "SlotResolution" /\ pending = {}
    /\ LET r == MakeResult(tree, nav, chain, cur, params, ~matchFail, intercepted, slotAssignments)
       IN  IF r.status = "NotFound"
           THEN phase' = "Matching" /\ UNCHANGED result
           ELSE phase' = r.status /\ result' = r
    /\ UNCHANGED <<browser, aside, tree, nav, cur, rest, chain, params, matchFail, intercepted, pending, slotAssignments, order, prev>>

\* A resolver that writes into the tree: the leaf it served is marked as a
\* fallback for later navigations.
Finish_WritesTree ==
    /\ phase = "SlotResolution" /\ pending = {}
    /\ result' = MakeResult(tree, nav, chain, cur, params, ~matchFail, intercepted, slotAssignments)
    /\ phase' = result'.status
    /\ tree' = [tree EXCEPT ![cur].hasDefault = TRUE]
    /\ UNCHANGED <<browser, aside, nav, cur, rest, chain, params, matchFail, intercepted, pending, slotAssignments, order, prev>>

\* SlotResolution -> Resolved | NotFound.
Finish ==
    /\ phase = "SlotResolution" /\ pending = {}
    /\ result' = MakeResult(tree, nav, chain, cur, params, ~matchFail, intercepted, slotAssignments)
    /\ phase' = result'.status
    /\ UNCHANGED <<browser, aside, tree, nav, cur, rest, chain, params, matchFail, intercepted, pending, slotAssignments, order, prev>>

\* A resolver that carries the matcher's failure flag over to the next navigation.
Requery_StaleFailure(q) ==
    /\ phase \in {"Resolved", "NotFound"}
    /\ prev = NoResult
    /\ prev' = [status |-> "Done", nav |-> nav, result |-> result, first |-> Head(order)]
    /\ nav' = [nav EXCEPT !.query = q]
    /\ phase' = "Idle"
    /\ cur' = "root" /\ rest' = <<>> /\ chain' = <<>> /\ params' = <<>>
    /\ intercepted' = None
    /\ pending' = {} /\ slotAssignments' = <<>> /\ order' = <<>>
    /\ result' = NoResult
    /\ UNCHANGED <<browser, aside, tree, matchFail>>

\* The same navigation issued again with query string q (the article links
\* differ in ?lang= only): a fresh resolution; the last one is remembered.
Requery(q) ==
    /\ phase \in {"Resolved", "NotFound"}
    /\ prev = NoResult
    /\ prev' = [status |-> "Done", nav |-> nav, result |-> result, first |-> Head(order)]
    /\ nav' = [nav EXCEPT !.query = q]
    /\ phase' = "Idle"
    /\ cur' = "root" /\ rest' = <<>> /\ chain' = <<>> /\ params' = <<>>
    /\ matchFail' = FALSE /\ intercepted' = None
    /\ pending' = {} /\ slotAssignments' = <<>> /\ order' = <<>>
    /\ result' = NoResult
    /\ UNCHANGED <<browser, aside, tree>>

Next ==
    \/ StartMatching
    \/ MatchStep
    \/ MatchDone
    \/ InterceptCheck
    \/ \E s \in pending : ResolveSlot(s)
    \/ Finish
    \/ \E q \in Queries : Requery(q)

Spec == Init /\ [][Next]_vars

\* One step of the resolver on the navigation in hand.
ResolverStep ==
    \/ StartMatching
    \/ MatchStep
    \/ MatchDone
    \/ InterceptCheck
    \/ \E s \in pending : ResolveSlot(s)
    \/ Finish

\* Navigations followed to their end under fairness: the root, an intercepted
\* page, a path inside parallel slots and a path that matches nothing.
LivePaths == { <<>>, <<"f1", "f2">>, <<"x", "y">>, <<"_lib">> }

LiveInit ==
    /\ tree \in Trees
    /\ nav \in { e \in NavigationEvents : e.targetPath \in LivePaths /\ e.query = None }
    /\ Fresh
    /\ prev = NoResult
    /\ NoBrowser
    /\ NoAside

\* The resolver runs a navigation to its end: a step that can be taken is taken.
LiveSpec == LiveInit /\ [][Next]_vars /\ WF_vars(ResolverStep)

Terminal == phase \in {"Resolved", "NotFound"}

----------------------------------------------------------------------------
(* The browser session: history, rendering, client state.                  *)

\* Longest history stack followed.
MaxHist == 2

\* What a freshly mounted input holds, and what the user types into it.
InitialInput == ""
Typed == "hello"

\* The wrappers with an input of their own (AuthLayout keeps one in useState).
InputWrappers == {"auth"}

\* The layout of complex-dashboard renders behind this constant.
IsAuthenticated == FALSE

\* The props ComplexDashboardLayout puts on the page.
ComplexDashboardLayout ==
    IF IsAuthenticated THEN {"children", "users", "revenue", "notifications"}
    ELSE {"login"}

\* The props the layout of directory n renders; the other layouts render children.
LayoutOutput(n) == IF n = "cd" THEN ComplexDashboardLayout ELSE {"children"}

\* The error boundary put around the segment's layout.
SegmentWrappers_BoundaryOutside(t, n) ==
       (IF t[n].hasError THEN << [node |-> n, comp |-> "error"] >> ELSE <<>>)
    \o (IF t[n].hasLayout THEN << [node |-> n, comp |-> "layout"] >> ELSE <<>>)
    \o (IF t[n].hasTemplate THEN << [node |-> n, comp |-> "template"] >> ELSE <<>>)

\* The components one segment contributes, outermost first: its layout wraps
\* its template, which wraps its error boundary.
SegmentWrappers(t, n) ==
       (IF t[n].hasLayout THEN << [node |-> n, comp |-> "layout"] >> ELSE <<>>)
    \o (IF t[n].hasTemplate THEN << [node |-> n, comp |-> "template"] >> ELSE <<>>)
    \o (IF t[n].hasError THEN << [node |-> n, comp |-> "error"] >> ELSE <<>>)

RECURSIVE Wrappers(_, _)
Wrappers(t, ch) ==
    IF ch = <<>> THEN <<>> ELSE SegmentWrappers(t, Head(ch)) \o Wrappers(t, Tail(ch))

\* The component tree of a resolved route, outermost first, the page last.
RenderTree(t, ch, leaf) == Wrappers(t, ch) \o << [node |-> leaf, comp |-> "page"] >>

\* The directories with a component that throws at times: the root layout
\* (ErrorSimulator), the layouts and pages of the error hierarchy.
CanThrow == {"root", "error", "error1", "error3", "error4"}

\* The components that can throw while rendering.
Throwers(rt) ==
    { i \in DOMAIN rt : rt[i].comp \in {"layout", "page"} /\ rt[i].node \in CanThrow }

\* Who handles an error thrown by component i: the innermost error boundary
\* around it, global-error.tsx when there is none.
ErrorHandler(rt, i) ==
    LET B == { j \in 1..(i - 1) : rt[j].comp = "error" }
    IN  IF B = {} THEN "global-error"
        ELSE rt[CHOOSE j \in B : \A k \in B : k <= j].node

NoError == [node |-> None, comp |-> None, handler |-> None]

\* The wrappers of kind c left on the page: all of the tree without an error,
\* those around the handling boundary with one, none under global-error.tsx.
Mounted(rt, i, c) ==
    LET B   == { j \in 1..(i - 1) : rt[j].comp = "error" }
        top == IF i = 0 THEN Len(rt)
               ELSE IF B = {} THEN 0
               ELSE CHOOSE j \in B : \A k \in B : k <= j
    IN  { rt[j].node : j \in { k \in 1..top : rt[k].comp = c } }

\* The template state carried across a navigation like a layout's.
NewTemplateState_Kept(old, mounted) ==
    [n \in mounted |-> IF n \in DOMAIN old THEN old[n] ELSE InitialInput]

\* A layout that stays mounted keeps its state; one mounted now starts afresh.
KeepLayoutState(old, mounted) ==
    [n \in mounted |-> IF n \in DOMAIN old THEN old[n] ELSE InitialInput]

\* A template is a new instance after every navigation.
NewTemplateState(old, mounted) == [n \in mounted |-> InitialInput]

\* A router.push / replace / back is a client transition from the page shown.
ClientNav(p, from) ==
    [targetPath |-> p, originPath |-> from, hasOrigin |-> TRUE,
     isClientTransition |-> TRUE, query |-> None]

\* Typing the URL or reloading the page.
DirectNav(p) ==
    [targetPath |-> p, originPath |-> <<>>, hasOrigin |-> FALSE,
     isClientTransition |-> FALSE, query |-> None]

\* The paths the pages link or push to.
LinkPaths ==
    { <<>>, <<"photo-feed">>, <<"photo-feed", "3">>, <<"login">>, <<"register">> }

\* The paths a session starts on: the linked ones, and the dashboard and the
\* pages of the error hierarchy opened by address.
StartPaths ==
    LinkPaths \cup { <<"complex-dashboard">>, <<"error">>, <<"error", "error1">>,
                     <<"error", "error1", "error2", "error3">>, <<"error", "error4">> }

\* The build served: every default.tsx of the dashboard present.
BrowserTree == BuildTree(DefaultCandidates, TRUE)

Location == history[hpos]

\* The resolver started afresh on event ev.
Restart(ev) ==
    /\ nav' = ev
    /\ phase' = "Idle"
    /\ cur' = "root" /\ rest' = <<>> /\ chain' = <<>> /\ params' = <<>>
    /\ matchFail' = FALSE /\ intercepted' = None
    /\ pending' = {} /\ slotAssignments' = <<>> /\ order' = <<>>
    /\ result' = NoResult
    /\ screen' = NoScreen
    /\ UNCHANGED <<tree, prev, aside>>

BrowserInit ==
    /\ tree = BrowserTree
    /\ \E p \in StartPaths :
          /\ nav = DirectNav(p)
          /\ history = << p >>
    /\ hpos = 1
    /\ lastOp = [op |-> "load", from |-> <<>>, prior |-> None]
    /\ Fresh
    /\ prev = NoResult
    /\ screen = NoScreen /\ layoutState = <<>> /\ templateState = <<>>
    /\ NoAside

\* The resolved route is rendered; any layout or page of it may throw. A layout
\* still mounted keeps its state, a template is a new instance; the inputs seen
\* carried over and cleared are noted on the screen.
Render ==
    /\ Terminal /\ screen = NoScreen /\ hpos > 0
    /\ LET rt == IF result.status = "Resolved"
                 THEN RenderTree(tree, result.chain, result.matchedLeaf)
                 ELSE RenderTree(tree, <<"root">>, "NotFound")
       IN  \E i \in Throwers(rt) \cup {0} :
             /\ layoutState' = KeepLayoutState(layoutState, Mounted(rt, i, "layout") \cap InputWrappers)
             /\ templateState' = NewTemplateState(templateState, Mounted(rt, i, "template") \cap InputWrappers)
             /\ screen' = [status |-> result.status,
                           url |-> result.url,
                           leaf |-> result.matchedLeaf,
                           slots |-> result.slotAssignments,
                           output |-> [n \in Mounted(rt, i, "layout") |-> LayoutOutput(n)],
                           carried |-> { n \in DOMAIN layoutState' : layoutState'[n] # InitialInput },
                           cleared |-> { n \in DOMAIN templateState' : n \in DOMAIN templateState
                                                                      /\ templateState[n] # InitialInput },
                           error |-> IF i = 0 THEN NoError
                                     ELSE [node |-> rt[i].node, comp |-> rt[i].comp,
                                           handler |-> ErrorHandler(rt, i)]]
    /\ UNCHANGED <<aside, tree, nav, phase, cur, rest, chain, params, matchFail, intercepted,
                   pending, slotAssignments, order, result, prev, history, hpos, lastOp>>

\* The user types into the input of a mounted layout.
TypeInLayout(n) ==
    /\ screen # NoScreen /\ n \in DOMAIN layoutState /\ layoutState[n] = InitialInput
    /\ layoutState' = [layoutState EXCEPT ![n] = Typed]
    /\ UNCHANGED <<aside, tree, nav, phase, cur, rest, chain, params, matchFail, intercepted,
                   pending, slotAssignments, order, result, prev, history, hpos, lastOp,
                   screen, templateState>>

\* The user types into the input of a mounted template.
TypeInTemplate(n) ==
    /\ screen # NoScreen /\ n \in DOMAIN templateState /\ templateState[n] = InitialInput
    /\ templateState' = [templateState EXCEPT ![n] = Typed]
    /\ UNCHANGED <<aside, tree, nav, phase, cur, rest, chain, params, matchFail, intercepted,
                   pending, slotAssignments, order, result, prev, history, hpos, lastOp,
                   screen, layoutState>>

\* router.push treated as router.replace.
Push_NoEntry(p) ==
    /\ screen # NoScreen /\ hpos < MaxHist
    /\ history' = [history EXCEPT ![hpos] = p]
    /\ hpos' = hpos
    /\ lastOp' = [op |-> "push", from |-> Location, prior |-> lastOp.op]
    /\ Restart(ClientNav(p, Location))
    /\ UNCHANGED <<layoutState, templateState>>

\* router.push(p): a new entry after the current one (forward entries are dropped).
Push(p) ==
    /\ screen # NoScreen /\ hpos < MaxHist
    /\ history' = Append(SubSeq(history, 1, hpos), p)
    /\ hpos' = hpos + 1
    /\ lastOp' = [op |-> "push", from |-> Location, prior |-> lastOp.op]
    /\ Restart(ClientNav(p, Location))
    /\ UNCHANGED <<layoutState, templateState>>

\* router.replace(p): the current entry is overwritten.
Replace(p) ==
    /\ screen # NoScreen
    /\ history' = [history EXCEPT ![hpos] = p]
    /\ hpos' = hpos
    /\ lastOp' = [op |-> "replace", from |-> Location, prior |-> lastOp.op]
    /\ Restart(ClientNav(p, Location))
    /\ UNCHANGED <<layoutState, templateState>>

\* router.back(): one entry back, the stack as it is.
Back ==
    /\ screen # NoScreen /\ hpos > 1
    /\ hpos' = hpos - 1
    /\ lastOp' = [op |-> "back", from |-> Location, prior |-> lastOp.op]
    /\ Restart(ClientNav(history[hpos - 1], Location))
    /\ UNCHANGED <<history, layoutState, templateState>>

\* A reload that kept the page's client state and its origin.
Reload_Soft ==
    /\ screen # NoScreen
    /\ lastOp' = [op |-> "reload", from |-> Location, prior |-> lastOp.op]
    /\ Restart([nav EXCEPT !.targetPath = Location])
    /\ UNCHANGED <<history, hpos, layoutState, templateState>>

\* The page is reloaded: a direct load of the current location, every
\* component mounted anew.
Reload ==
    /\ screen # NoScreen
    /\ lastOp' = [op |-> "reload", from |-> Location, prior |-> lastOp.op]
    /\ Restart(DirectNav(Location))
    /\ layoutState' = <<>> /\ templateState' = <<>>
    /\ UNCHANGED <<history, hpos>>

\* reset() without router.refresh(): the boundary drops its error and shows
\* the segment as it was sent, nothing rendered again.
TryAgain_ResetOnly ==
    /\ screen # NoScreen /\ screen.error # NoError /\ screen.error.handler # "global-error"
    /\ lastOp' = [op |-> "retry", from |-> Location, prior |-> lastOp.op]
    /\ screen' = [screen EXCEPT !.error = NoError]
    /\ UNCHANGED <<aside, tree, nav, phase, cur, rest, chain, params, matchFail, intercepted,
                   pending, slotAssignments, order, result, prev, history, hpos,
                   layoutState, templateState>>

\* "Try Again" on the fallback of error.tsx: within one transition
\* router.refresh() asks for the current route again and reset() clears the
\* boundary, so the segment that failed is rendered anew; the history and
\* the state of the mounted layouts stay.
TryAgain ==
    /\ screen # NoScreen /\ screen.error # NoError /\ screen.error.handler # "global-error"
    /\ lastOp' = [op |-> "retry", from |-> Location, prior |-> lastOp.op]
    /\ Restart(nav)
    /\ UNCHANGED <<history, hpos, layoutState, templateState>>

BrowserNext ==
    \/ StartMatching
    \/ MatchStep
    \/ MatchDone
    \/ InterceptCheck
    \/ \E s \in pending : ResolveSlot(s)
    \/ Finish
    \/ Render
    \/ \E n \in InputWrappers : TypeInLayout(n)
    \/ \E n \in InputWrappers : TypeInTemplate(n)
    \/ \E p \in LinkPaths : Push(p)
    \/ \E p \in LinkPaths : Replace(p)
    \/ Back
    \/ Reload
    \/ TryAgain

BrowserSpec == BrowserInit /\ [][BrowserNext]_vars

----------------------------------------------------------------------------
(* Properties.                                                             *)

KindsIn(ch, k) == { i \in DOMAIN ch : tree[ch[i]].kind = k }

\* C1: at each level the matcher takes the literal child for the segment if
\* there is one, otherwise the dynamic child, otherwise the catch-all child
\* (which takes every segment left), and stops when there is none; the
\* choice is made again at every level.
C1_LevelChoice ==
    [][ (phase = "Matching" /\ phase' = "Matching" /\ ~matchFail /\ rest # <<>>) =>
          LET K   == UrlKids(tree, Nodes, cur)
              lit == { c \in K : tree[c].kind = "static" /\ tree[c].seg = Head(rest) }
              dyn == { c \in K : tree[c].kind = "dynamic" }
              ca  == { c \in K : tree[c].kind = "catchAll" }
          IN  /\ lit # {} => cur' \in lit /\ rest' = Tail(rest)
              /\ lit = {} /\ dyn # {} => cur' \in dyn /\ rest' = Tail(rest)
              /\ lit = {} /\ dyn = {} /\ ca # {} => cur' \in ca /\ rest' = <<>>
              /\ lit = {} /\ dyn = {} /\ ca = {} => matchFail' /\ cur' = cur
      ]_vars

\* The matcher stands on a literal child it preferred to a dynamic or
\* catch-all sibling, further segments still to take.
C1_Witness ==
    /\ phase = "Matching" /\ cur # "root" /\ tree[cur].kind = "static"
    /\ \E c \in UrlKids(tree, Nodes, UrlDir(tree, tree[cur].parent)) :
          tree[c].kind \in {"dynamic", "catchAll"}
    /\ rest # <<>>

\* C2: every dynamic node of the matched chain binds its parameter name to
\* the raw segment at its position, and the keys of params are exactly the
\* names of the chain's dynamic and catch-all nodes; /products/42 gives
\* productId = "42".
C2_DynamicBinding ==
    Terminal =>
        /\ \A i \in KindsIn(result.chain, "dynamic") :
              LET n == result.chain[i]
              IN  /\ tree[n].seg \in DOMAIN result.params
                  /\ result.params[tree[n].seg] = nav.targetPath[UrlDepth(tree, n)]
        /\ DOMAIN result.params =
              { tree[result.chain[i]].seg :
                  i \in KindsIn(result.chain, "dynamic") \cup KindsIn(result.chain, "catchAll") }
        /\ nav.targetPath = <<"products", "42">> =>
              result.status = "Resolved" /\ result.params = ("productId" :> "42")

C2_Witness ==
    /\ Terminal /\ result.status = "Resolved"
    /\ Cardinality(KindsIn(result.chain, "dynamic")) = 2
    /\ result.params = ("productId" :> "42") @@ ("reviewId" :> "7")

\* C3: a catch-all node binds every segment left below its parent, in order,
\* as one sequence (never an empty one); /docs/a/b/c gives slug = <<a,b,c>>,
\* and /docs, which leaves the catch-all nothing, is NotFound.
C3_CatchAllBinding ==
    Terminal =>
        /\ \A i \in KindsIn(result.chain, "catchAll") :
              LET n == result.chain[i]
                  d == UrlDepth(tree, tree[n].parent)
              IN  /\ result.params[tree[n].seg] = SubSeq(nav.targetPath, d + 1, Len(nav.targetPath))
                  /\ Len(result.params[tree[n].seg]) >= 1
                  /\ i = Len(result.chain)
        /\ nav.targetPath = <<"docs", "a", "b", "c">> =>
              result.status = "Resolved" /\ result.params = ("slug" :> <<"a", "b", "c">>)
        /\ nav.targetPath = <<"docs">> =>
              result.status = "NotFound" /\ KindsIn(result.chain, "catchAll") = {}

C3_Witness ==
    /\ Terminal /\ result.status = "Resolved" /\ result.matchedLeaf = "slug"
    /\ Len(result.params["slug"]) = 3

GroupLabels == { tree[n].seg : n \in { m \in Nodes : tree[m].kind = "group" } }

\* C4: a route group takes no URL segment: /login resolves to the login page
\* under (auth), the segments taken are those of the chain's folders and
\* parameters alone, and a path that spells a group label is NotFound.
C4_GroupsTransparent ==
    Terminal =>
        /\ nav.targetPath = <<"login">> =>
              /\ result.status = "Resolved" /\ result.matchedLeaf = "login"
              /\ result.chain = <<"root", "auth", "login">>
        /\ (\E i \in DOMAIN nav.targetPath : nav.targetPath[i] \in GroupLabels) =>
              result.status = "NotFound"
        /\ (~matchFail /\ KindsIn(chain, "catchAll") = {}) =>
              Cardinality(KindsIn(chain, "static") \cup KindsIn(chain, "dynamic")) - 1
                  = Len(nav.targetPath)

C4_Witness ==
    /\ Terminal /\ result.status = "Resolved"
    /\ KindsIn(result.chain, "group") # {}
    /\ result.matchedLeaf = "login"

\* C5: no private node is ever on the matched chain or assigned to a slot,
\* and a path through _lib is NotFound whether or not pages exist under it.
C5_PrivateUnreachable ==
    /\ KindsIn(chain, "private") = {}
    /\ \A s \in DOMAIN slotAssignments :
          slotAssignments[s].node = None \/ tree[slotAssignments[s].node].kind # "private"
    /\ Terminal =>
          /\ KindsIn(result.chain, "private") = {}
          /\ (nav.targetPath # <<>> /\ Head(nav.targetPath) = "_lib") => result.status = "NotFound"

C5_Witness ==
    /\ Terminal /\ nav.targetPath = <<"_lib", "util">>
    /\ tree["lib"].hasPage /\ tree["libUtil"].hasPage
    /\ result.status = "NotFound"

\* The tree's directories with every intercept folder (and what lies under it) removed.
RECURSIVE UnderIntercept(_, _)
UnderIntercept(t, n) ==
    IF n = None \/ n = "root" THEN FALSE
    ELSE t[n].kind = "intercept" \/ UnderIntercept(t, t[n].parent)

RealNodes(t) == { n \in DOMAIN t : ~UnderIntercept(t, n) }

\* Matcher 4.1 and the slot rule run in one go over the directories NS, no
\* interception considered.
PlainResolve(t, NS, ev) ==
    LET w     == Walk(t, NS, "root", ev.targetPath)
        ch    == <<"root">> \o w.chain
        slots == [s \in SlotsOf(t, NS, ch) \cup {"children"} |->
                    IF s = "children" THEN ChildrenOutcome(t, NS, ch, w.last, w.ok, None, ev)
                    ELSE NamedSlotOutcome(t, NS, s, ev.targetPath, None)]
    IN  MakeResult(t, ev, ch, w.last, w.params, w.ok, None, slots)

\* C6: on a direct load or refresh (isClientTransition false, or no origin) the
\* result is that of the plain matcher on the tree without its intercept
\* nodes; an intercept node is selected only on a client transition whose
\* origin is consistent with where the node is declared.
C6_InterceptOnlyOnClientTransition ==
    /\ (Terminal /\ ~(nav.isClientTransition /\ nav.hasOrigin)) =>
          /\ result = PlainResolve(tree, RealNodes(tree), nav)
          /\ result.matchedLeaf \notin InterceptNodes(tree)
          /\ \A s \in DOMAIN result.slotAssignments :
                result.slotAssignments[s].kind # "intercept"
    /\ intercepted # None =>
          /\ nav.isClientTransition /\ nav.hasOrigin
          /\ cur \in RealOf(tree, Nodes, intercepted)
          /\ \/ tree[intercepted].interceptDepth = RootDepth
             \/ Walk(tree, Nodes, "root", nav.originPath).last = DeclDir(tree, intercepted)

\* A refresh of /f1/f2 whose event still names the origin /f1: the real f2 page.
C6_Witness ==
    /\ Terminal /\ ~nav.isClientTransition /\ nav.hasOrigin
    /\ nav.originPath = <<"f1">> /\ nav.targetPath = <<"f1", "f2">>
    /\ result.status = "Resolved" /\ result.matchedLeaf = "f2"

\* C7: the URL of every ended navigation, intercepted or not, is the event's
\* targetPath.
C7_UrlIsTargetPath ==
    Terminal => result.url = nav.targetPath

\* An intercepted navigation: /photo-feed/3 opened from the feed.
C7_Witness ==
    /\ Terminal /\ intercepted = "modalId" /\ result.matchedLeaf = "modalId"
    /\ result.url = <<"photo-feed", "3">>

\* The directories from n up to `top`, both included.
RECURSIVE PathUp(_, _, _)
PathUp(t, n, top) ==
    IF n = top \/ n = "root" THEN {n} ELSE {n} \cup PathUp(t, t[n].parent, top)

RECURSIVE Depth(_, _)
Depth(t, n) == IF n = "root" THEN 0 ELSE 1 + Depth(t, t[n].parent)

\* `o` is what the fallback rule gives for a search from `deepest` up to `top`:
\* the deepest default.tsx on that path, the unresolved marker iff there is none.
IsFallback(o, deepest, top) ==
    LET D == { n \in PathUp(tree, deepest, top) : tree[n].hasDefault }
    IN  /\ D = {} <=> o = Unresolved
        /\ D # {} => /\ o.kind = "default" /\ o.node \in D
                     /\ \A d \in D : Depth(tree, d) <= Depth(tree, o.node)

C9_SlotOrderIrrelevant ==
    Terminal =>
        /\ (prev # NoResult /\ prev.nav = nav) =>
              result.slotAssignments = prev.result.slotAssignments
        /\ nav.targetPath = <<"x", "y">> =>
              result.slotAssignments =
                    ("a" :> [kind |-> "default", node |-> "a"])
                 @@ ("b" :> Unresolved)
                 @@ ("children" :> [kind |-> "page", node |-> "y"])

\* /x/y resolved twice, @b first one time and last the other.
C9_Witness ==
    /\ Terminal /\ prev # NoResult /\ prev.nav = nav
    /\ nav.targetPath = <<"x", "y">>
    /\ prev.first = "b" /\ order = <<"children", "a", "b">>

\* C10: two navigations that differ in the query string only hand every layout
\* of the chain the same props (path params, no searchParams); the page's
\* props alone may differ.
C10_LayoutsSeeNoQuery ==
    (Terminal /\ prev # NoResult /\ result.status = "Resolved") =>
        /\ prev.nav.targetPath = nav.targetPath
        /\ result.layoutProps = prev.result.layoutProps
        /\ \A n \in DOMAIN result.layoutProps :
              result.layoutProps[n] = [params |-> result.params]
        /\ result.pageProps = [params |-> result.params, searchParams |-> nav.query]

\* /articles/breaking-news-123?lang=en after ?lang=es: ArticleLayout's props
\* unchanged, ArticlePage's not.
C10_Witness ==
    /\ Terminal /\ prev # NoResult /\ result.status = "Resolved"
    /\ nav.targetPath = <<"articles", "breaking-news-123">>
    /\ nav.query = "en" /\ prev.nav.query = "es"
    /\ "articleId" \in DOMAIN result.layoutProps
    /\ result.layoutProps["articleId"] = prev.result.layoutProps["articleId"]
    /\ result.pageProps # prev.result.pageProps

\* C11: resolving the same NavigationEvent on the same tree a second time, after
\* the first resolution has run and whatever order the slots were taken in each
\* time, gives a ResolvedRoute equal to the first one, field by field.
C11_ResolutionIdempotent ==
    (Terminal /\ prev # NoResult /\ prev.nav = nav) => result = prev.result

\* The dashboard's unmatched sub-path resolved twice, the slots taken in a
\* different order the second time, and a failed match resolved twice.
C11_Witness ==
    /\ Terminal /\ prev # NoResult /\ prev.nav = nav
    /\ result.status = "Resolved"
    /\ Len(order) >= 3 /\ Head(order) # prev.first
    /\ nav.targetPath = <<"complex-dashboard", "archived">>

\* Matcher, interception and slot rule run in one go on tree t.
FullResolve(t, ev) ==
    LET w     == Walk(t, DOMAIN t, "root", ev.targetPath)
        ch    == <<"root">> \o w.chain
        icpt  == IF ClientOrigin(ev) /\ w.ok THEN SelectIntercept(t, ev, w.last) ELSE None
        slots == [s \in SlotsOf(t, DOMAIN t, ch) \cup {"children"} |->
                    IF s = "children" THEN ChildrenOutcome(t, DOMAIN t, ch, w.last, w.ok, icpt, ev)
                    ELSE NamedSlotOutcome(t, DOMAIN t, s, ev.targetPath, icpt)]
    IN  MakeResult(t, ev, ch, w.last, w.params, w.ok, icpt, slots)

\* The directory whose default.tsx would have given slot s a fallback.
FallbackDir(t, s, ch) == IF s = "children" THEN SlotOwner(t, DOMAIN t, ch) ELSE s

\* The slots of the result left unresolved although a layout declares them.
UnresolvedSlots ==
    { s \in DOMAIN result.slotAssignments :
        /\ result.slotAssignments[s] = Unresolved
        /\ FallbackDir(tree, s, chain) # None }

\* C12: a slot left SlotUnresolved costs the navigation nothing else: where
\* the matcher found the page the navigation ends Resolved on the matched
\* chain, and in every case the status, the chain, the leaf and every other
\* slot's assignment are those of the same tree with a default.tsx given to
\* that slot.
C12_UnresolvedSlotIsLocal ==
    Terminal =>
        \A s \in UnresolvedSlots :
            LET t2 == [tree EXCEPT ![FallbackDir(tree, s, chain)].hasDefault = TRUE]
                r2 == FullResolve(t2, nav)
            IN  /\ ~matchFail => result.status = "Resolved" /\ result.chain = chain
                                    /\ result.matchedLeaf \in {cur, intercepted}
                /\ r2.status = result.status
                /\ r2.chain = result.chain
                /\ r2.matchedLeaf = result.matchedLeaf
                /\ r2.slotAssignments[s] # Unresolved
                /\ \A o \in DOMAIN result.slotAssignments \ {s} :
                      r2.slotAssignments[o] = result.slotAssignments[o]

\* /complex-dashboard/archived with no default.tsx anywhere: @revenue, @users
\* and children are unresolved, @notifications has its page, the navigation is
\* Resolved.
C12_Witness ==
    /\ Terminal /\ result.status = "Resolved"
    /\ nav.targetPath = <<"complex-dashboard", "archived">>
    /\ {"revenue", "users", "children"} \subseteq UnresolvedSlots
    /\ result.slotAssignments["notifications"].kind = "page"

\* Every folder from the root down to directory n is a literal one or a route group.
RECURSIVE AllStatic(_, _)
AllStatic(t, n) ==
    n = "root" \/ (t[n].kind \in {"static", "group"} /\ AllStatic(t, t[n].parent))

\* The URL path such a directory stands for (route groups add nothing).
RECURSIVE StaticPath(_, _)
StaticPath(t, n) ==
    IF n = "root" THEN <<>>
    ELSE IF t[n].kind = "group" THEN StaticPath(t, t[n].parent)
    ELSE Append(StaticPath(t, t[n].parent), t[n].seg)

\* The pages declared under a chain of literal folders.
StaticPages(t) == { n \in DOMAIN t : t[n].hasPage /\ AllStatic(t, n) }

C19_PhaseOrder ==
    [][phase' # phase =>
        \/ phase = "Idle" /\ phase' = "Matching"
        \/ phase = "Matching" /\ phase' = "InterceptCheck"
              /\ nav.isClientTransition /\ nav.hasOrigin
        \/ phase = "Matching" /\ phase' = "SlotResolution"
              /\ ~(nav.isClientTransition /\ nav.hasOrigin)
        \/ phase = "InterceptCheck" /\ phase' = "SlotResolution"
        \/ phase = "SlotResolution" /\ phase' \in {"Resolved", "NotFound"}
        \/ phase \in {"Resolved", "NotFound"} /\ phase' = "Idle" /\ prev' # prev
    ]_vars

\* A client transition past InterceptCheck, and a direct load that skipped it.
C19_Witness ==
    /\ Terminal /\ prev # NoResult
    /\ nav.isClientTransition /\ nav.hasOrigin
    /\ intercepted # None

PhaseRank(ph) ==
    CASE ph = "Idle" -> 0
      [] ph = "Matching" -> 1
      [] ph = "InterceptCheck" -> 2
      [] ph = "SlotResolution" -> 3
      [] ph \in {"Resolved", "NotFound"} -> 4

\* C20: a navigation that starts reaches Resolved or NotFound; within one
\* navigation the phase only moves forward, and once Resolved or NotFound
\* neither the phase nor the result changes until the next navigation starts.
C20_Terminates ==
    /\ (phase = "Idle") ~> Terminal
    /\ [][prev' = prev =>
            /\ phase' # phase => PhaseRank(phase') > PhaseRank(phase)
            /\ Terminal => phase' = phase /\ result' = result]_vars

\* A second navigation run to its end, after the first one ended.
C20_Witness ==
    /\ Terminal /\ prev # NoResult /\ prev.result.status = "Resolved"
    /\ result.status = "Resolved" /\ Len(order) = 3

FeedPath == <<"photo-feed">>
PhotoPath == <<"photo-feed", "3">>

\* C14: a client transition from /photo-feed to /photo-feed/3 shows the URL
\* /photo-feed/3 with the intercepted photo view in the modal slot and the feed
\* still as children; a reload (or direct load) of /photo-feed/3 shows the full
\* photo page, the modal slot holding its default; going back from
\* /photo-feed/3 lands on /photo-feed with the modal slot on its default.
C14_PhotoFeedModal ==
    screen # NoScreen =>
        /\ (lastOp.op \in {"push", "replace"} /\ lastOp.from = FeedPath /\ Location = PhotoPath) =>
              /\ screen.status = "Resolved" /\ screen.url = PhotoPath
              /\ screen.slots["modal"] = [kind |-> "intercept", node |-> "modalId"]
              /\ screen.slots["children"] = [kind |-> "kept", node |-> "feed"]
        /\ (lastOp.op \in {"reload", "load"} /\ Location = PhotoPath) =>
              /\ screen.status = "Resolved" /\ screen.url = PhotoPath
              /\ screen.leaf = "photoId"
              /\ screen.slots["children"] = [kind |-> "page", node |-> "photoId"]
              /\ screen.slots["modal"] = [kind |-> "default", node |-> "modal"]
        /\ (lastOp.op = "back" /\ lastOp.from = PhotoPath /\ Location = FeedPath) =>
              /\ screen.status = "Resolved" /\ screen.url = FeedPath
              /\ screen.leaf = "feed"
              /\ screen.slots["children"] = [kind |-> "page", node |-> "feed"]
              /\ screen.slots["modal"] = [kind |-> "default", node |-> "modal"]

\* Back on the feed after the photo was opened from it and reloaded.
C14_Witness ==
    /\ screen # NoScreen /\ screen.error = NoError
    /\ lastOp.op = "back" /\ lastOp.prior = "reload" /\ lastOp.from = PhotoPath
    /\ history = << FeedPath, PhotoPath >> /\ hpos = 1
    /\ screen.slots["modal"].kind = "default"

\* The nearest error.tsx at directory n or above it; global-error.tsx when
\* there is none up to the root.
RECURSIVE NearestBoundary(_, _)
NearestBoundary(t, n) ==
    IF n = None THEN "global-error"
    ELSE IF t[n].hasError THEN n
    ELSE NearestBoundary(t, t[n].parent)

\* C15: an error thrown by a page is handled by the nearest error.tsx from the
\* page's segment up to the root; one thrown by a layout is handled by the
\* nearest error.tsx strictly above the layout's segment, never by the one
\* beside it; with none on the way (the root layout's case) global-error.tsx
\* handles it.
C15_NearestErrorBoundary ==
    (screen # NoScreen /\ screen.error # NoError) =>
        LET e == screen.error
        IN  /\ e.comp = "page" => e.handler = NearestBoundary(tree, e.node)
            /\ e.comp = "layout" =>
                  /\ e.handler = NearestBoundary(tree, tree[e.node].parent)
                  /\ e.handler # e.node
            /\ (e.comp = "layout" /\ e.node = "root") => e.handler = "global-error"

\* The layout of /error/error4 throws beside an error.tsx of its own: /error/error.tsx
\* handles it.
C15_Witness ==
    /\ screen # NoScreen
    /\ screen.error = [node |-> "error4", comp |-> "layout", handler |-> "error"]
    /\ tree["error4"].hasError

\* Position of component c of directory n in a component tree, 0 when absent.
IndexOf(rt, n, c) ==
    LET I == { i \in DOMAIN rt : rt[i].node = n /\ rt[i].comp = c }
    IN  IF I = {} THEN 0 ELSE CHOOSE i \in I : TRUE

\* C16: when a client navigation is rendered, every layout input that was
\* mounted before and is mounted after holds the value it held, every mounted
\* template input holds the initial value, and in the component tree a
\* segment's layout stands outside its template.
C16_LayoutKeepsTemplateResets ==
    [][(screen = NoScreen /\ screen' # NoScreen /\ lastOp.op \in {"push", "replace", "back"}) =>
          /\ \A n \in DOMAIN layoutState \cap DOMAIN layoutState' :
                layoutState'[n] = layoutState[n]
          /\ \A n \in DOMAIN templateState' : templateState'[n] = InitialInput
          /\ \A n \in Range(result.chain) :
                (tree[n].hasLayout /\ tree[n].hasTemplate) =>
                    LET rt == RenderTree(tree, result.chain, result.matchedLeaf)
                    IN  IndexOf(rt, n, "layout") < IndexOf(rt, n, "template")
    ]_vars

\* /login -> /register with both inputs typed into: the layout's is carried
\* over, the template's is cleared.
C16_Witness ==
    /\ screen # NoScreen /\ screen.error = NoError
    /\ lastOp.op = "push" /\ lastOp.from = <<"login">> /\ Location = <<"register">>
    /\ screen.carried = {"auth"} /\ screen.cleared = {"auth"}
    /\ layoutState["auth"] = Typed /\ templateState["auth"] = InitialInput

\* C17: router.push adds one entry on top of the current one and a back()
\* after it lands on the location the push left; router.replace leaves the
\* number of entries and every other entry as they were, and a back() after it
\* lands on the entry below, the replaced location's entry now holding the
\* replacing path.
C17_PushReplaceBack ==
    [][/\ (\E p \in LinkPaths : Push(p)) =>
            /\ Len(history') = hpos + 1 /\ hpos' = hpos + 1
            /\ SubSeq(history', 1, hpos) = SubSeq(history, 1, hpos)
            /\ history'[hpos'] = nav'.targetPath
       /\ (\E p \in LinkPaths : Replace(p)) =>
            /\ Len(history') = Len(history) /\ hpos' = hpos
            /\ \A i \in DOMAIN history : i # hpos => history'[i] = history[i]
            /\ history'[hpos] = nav'.targetPath
       /\ (Back /\ lastOp.op = "push") =>
            /\ history'[hpos'] = lastOp.from
            /\ nav'.targetPath = lastOp.from
       /\ (Back /\ lastOp.op = "replace") =>
            /\ hpos' = hpos - 1 /\ history' = history
            /\ nav'.targetPath = history[hpos - 1]
            /\ history'[hpos] = nav.targetPath
    ]_vars

\* Back on /login after /register was pushed from it.
C17_Witness ==
    /\ screen # NoScreen
    /\ lastOp.op = "back" /\ lastOp.prior = "push"
    /\ history = << <<"login">>, <<"register">> >> /\ hpos = 1
    /\ screen.url = <<"login">>

\* C18: on /complex-dashboard the layout puts children and the users, revenue
\* and notifications slots on the page.
C18_DashboardRendersSlots ==
    (screen # NoScreen /\ screen.status = "Resolved" /\ screen.error = NoError
        /\ screen.url = <<"complex-dashboard">>) =>
        {"children", "users", "revenue", "notifications"} \subseteq screen.output["cd"]

\* What the layout as written puts there: the login slot alone.
C18_DashboardRendersLogin ==
    (screen # NoScreen /\ screen.status = "Resolved" /\ screen.error = NoError
        /\ screen.url = <<"complex-dashboard">>) =>
        screen.output["cd"] = {"login"}

C18_Witness ==
    /\ screen # NoScreen /\ screen.status = "Resolved" /\ screen.error = NoError
    /\ screen.url = <<"complex-dashboard">>
    /\ screen.slots["users"].kind = "page"

\* Directory n and the directories above it.
RECURSIVE AncSelf(_, _)
AncSelf(t, n) == IF n = "root" THEN {"root"} ELSE {n} \cup AncSelf(t, t[n].parent)

\* C21: a navigation the matcher cannot serve ends in the NotFound variant of
\* the result (a phase of the machine, with a result record), and the boundary
\* it carries is the lowest directory from the failure point up that declares
\* a not-found, the root's global one when none below the root does.
C21_NotFoundScoped ==
    (Terminal /\ result.status = "NotFound") =>
        LET b == result.boundary
            D == { m \in AncSelf(tree, cur) : m # "root" /\ tree[m].hasNotFound }
        IN  /\ phase = "NotFound" /\ result.matchedLeaf = "NotFound"
            /\ b \in AncSelf(tree, cur)
            /\ D = {} => b = "root"
            /\ D # {} => b \in D /\ \A m \in D : b \in AncSelf(tree, m) => b = m

\* /x/nope fails below x, which declares a not-found of its own.
C21_Witness ==
    /\ Terminal /\ result.status = "NotFound"
    /\ nav.targetPath = <<"x", "nope">>
    /\ result.boundary = "x"

\* Number of URL segments from the root down to directory n: route groups and
\* slots are not levels.
RECURSIVE SegLevel(_, _)
SegLevel(t, n) ==
    IF n = "root" THEN 0
    ELSE IF t[n].kind \in {"group", "parallelSlot"} THEN SegLevel(t, t[n].parent)
    ELSE 1 + SegLevel(t, t[n].parent)

\* The same count with route groups taken for levels.
RECURSIVE RawLevel(_, _)
RawLevel(t, n) ==
    IF n = "root" THEN 0
    ELSE IF t[n].kind = "parallelSlot" THEN RawLevel(t, t[n].parent)
    ELSE 1 + RawLevel(t, t[n].parent)

\* The nearest directory at or above n that is a URL level.
RECURSIVE LevelDir(_, _)
LevelDir(t, n) ==
    IF n = "root" \/ t[n].kind \notin {"group", "parallelSlot"} THEN n
    ELSE LevelDir(t, t[n].parent)

\* C22 as worded: the intercept node stands d levels above the node matched
\* for the target path.
C22_InterceptAboveTarget ==
    (intercepted # None /\ tree[intercepted].interceptDepth \in {0, 1, 2}) =>
        SegLevel(tree, intercepted) = SegLevel(tree, cur) - tree[intercepted].interceptDepth

\* C22: an intercept node with interceptDepth d in 0..2 is selected only when
\* the node matched for the target path stands d levels above the intercept
\* node's own position and carries its segment, and the origin path resolves
\* to the directory the intercept node is declared in; levels are URL
\* segments, route groups and slots not counted.
C22_InterceptDepth ==
    (intercepted # None /\ tree[intercepted].interceptDepth \in {0, 1, 2}) =>
        LET i == intercepted
            o == FullResolve(tree, DirectNav(nav.originPath))
        IN  /\ SegLevel(tree, cur) = SegLevel(tree, i) - tree[i].interceptDepth
            /\ tree[cur].seg = tree[i].seg
            /\ nav.isClientTransition /\ nav.hasOrigin
            /\ o.status = "Resolved"
            /\ o.matchedLeaf = LevelDir(tree, tree[i].parent)

\* /counter opened from /photo-feed: the (..)counter folder sits below the
\* (main) group, its target outside of it, and counting the group would put
\* them two levels apart.
C22_Witness ==
    /\ Terminal /\ intercepted = "icounter" /\ cur = "counter"
    /\ nav.originPath = <<"photo-feed">>
    /\ RawLevel(tree, intercepted) - RawLevel(tree, cur) = 2
    /\ result.matchedLeaf = "icounter"

\* The intercept nodes carrying the root-level marker.
RootMarkers(t) == { i \in DOMAIN t : t[i].kind = "intercept" /\ t[i].interceptDepth = RootDepth }

\* C23: a root-level intercept node is selected on every client transition
\* (isClientTransition with an origin) to the root-level path it names,
\* whichever page the transition starts from, and is never selected when
\* isClientTransition is false.
C23_RootMarker ==
    /\ Terminal =>
          \A i \in RootMarkers(tree) :
              /\ (nav.targetPath = << tree[i].seg >> /\ nav.isClientTransition /\ nav.hasOrigin) =>
                    intercepted = i /\ result.matchedLeaf = i
              /\ ~nav.isClientTransition => result.matchedLeaf # i
    /\ (intercepted \in RootMarkers(tree)) => nav.isClientTransition

\* /f5 opened from /f1/f2, two levels deep and not where (...)f5 is declared.
C23_Witness ==
    /\ Terminal /\ intercepted = "if5"
    /\ nav.originPath = <<"f1", "f2">>
    /\ SegLevel(tree, tree["if5"].parent) = 3

\* A named slot has a page of its own for the path.
SlotServes(slots) == \E s \in DOMAIN slots : s # "children" /\ slots[s].kind = "page"

\* C26: entering a directory that has no page does not fail the match while
\* segments are left to take below it: the matcher fails only where no child
\* takes the next segment, or where every segment is taken and the directory
\* reached has no page; a NotFound comes from one of these two, and a path
\* taken to its end on a directory with a page is Resolved whatever page-less
\* directories it went through.
C26_PagelessOnTheWay ==
    /\ matchFail =>
          \/ rest # <<>> /\ PickChild(tree, Nodes, cur, Head(rest)) = None
          \/ rest = <<>> /\ ~tree[cur].hasPage /\ phase # "Matching"
    /\ (Terminal /\ result.status = "NotFound") => matchFail
    /\ (Terminal /\ rest = <<>> /\ tree[cur].hasPage) => result.status = "Resolved"

\* /products/42/reviews/7 resolved through reviews/, which has no page.
C26_Witness ==
    /\ Terminal /\ result.status = "Resolved"
    /\ cur = "reviewId" /\ ~tree["reviews"].hasPage
    /\ \E i \in DOMAIN chain : chain[i] = "reviews"

\* The directory entered for the k-th segment of the path, literal children
\* first at every level; None where the matcher has stopped before.
GreedyAt(t, path, k) ==
    LET w == Walk(t, DOMAIN t, "root", SubSeq(path, 1, k))
    IN  IF w.rest = <<>> THEN w.last ELSE None

\* The levels of the path at which a literal child was entered while a dynamic
\* or catch-all sibling stood beside it.
LiteralLevels(t, path) ==
    { k \in 1..Len(path) :
        LET c == GreedyAt(t, path, k)
        IN  /\ c # None /\ t[c].kind = "static"
            /\ \E d \in UrlKids(t, DOMAIN t, UrlDir(t, t[c].parent)) :
                  t[d].kind \in {"dynamic", "catchAll"} }

\* C30: the matcher does not go back on a choice: where a literal child was
\* entered for a segment and the match fails beneath it (a later segment has no
\* child, or the directory reached has no page), the resolution ends on the
\* literal branch in NotFound, the dynamic or catch-all sibling is never
\* entered instead, even when it would have matched the whole path.
C30_NoBacktracking ==
    (Terminal /\ LiteralLevels(tree, nav.targetPath) # {}
              /\ ~Walk(tree, Nodes, "root", nav.targetPath).ok
              /\ ~SlotServes(result.slotAssignments)) =>
        /\ result.status = "NotFound"
        /\ \A k \in LiteralLevels(tree, nav.targetPath) :
              \E i \in DOMAIN chain : chain[i] = GreedyAt(tree, nav.targetPath, k)

\* /products/featured/reviews/7 ends in NotFound under featured/, which has
\* no reviews/, although products/[productId]/reviews/[reviewId] matches it.
C30_Witness ==
    /\ Terminal /\ result.status = "NotFound"
    /\ nav.targetPath = <<"products", "featured", "reviews", "7">>
    /\ cur = "featured" /\ rest = <<"reviews", "7">>
    /\ SomeWalk(tree, Nodes, "root", nav.targetPath)

----------------------------------------------------------------------------
(* Two resolutions on one tree.                                            *)

\* The navigations resolved side by side: the dashboard's unmatched sub-path,
\* an intercepted page, a failed match, a catch-all and the root.
SharePaths ==
    { <<"complex-dashboard", "archived">>, <<"f1", "f2">>, <<"x", "nope">>, <<"docs", "a">>, <<>> }

ShareEvents ==
    { e \in NavigationEvents :
        /\ e.targetPath \in SharePaths /\ e.query = None
        /\ e.originPath \in {<<>>, <<"f1">>} /\ e.isClientTransition = e.hasOrigin }

\* A second resolution about to start on event e.
OtherFresh(e) ==
    [phase |-> "Idle", nav |-> e, walk |-> None, icpt |-> None, during |-> None, result |-> NoResult]

ShareInit ==
    /\ tree \in Trees
    /\ nav \in ShareEvents
    /\ Fresh
    /\ prev = NoResult
    /\ NoBrowser
    /\ other \in { OtherFresh(e) : e \in ShareEvents }
    /\ declared = None /\ pathname = <<>>

\* The second resolution matches its path (4.1, 4.2) on the shared tree; the
\* phase the first one is in at that moment is noted.
OtherMatch ==
    /\ other.phase = "Idle"
    /\ other' = [other EXCEPT !.phase = "InterceptCheck",
                              !.walk = Walk(tree, Nodes, "root", other.nav.targetPath),
                              !.during = phase]
    /\ UNCHANGED <<tree, nav, phase, cur, rest, chain, params, matchFail, intercepted,
                   pending, slotAssignments, order, result, prev, browser, declared, pathname>>

\* The second resolution's interception check (4.4).
OtherIntercept ==
    /\ other.phase = "InterceptCheck"
    /\ other' = [other EXCEPT !.phase = "SlotResolution",
                              !.icpt = IF ClientOrigin(other.nav) /\ other.walk.ok
                                       THEN SelectIntercept(tree, other.nav, other.walk.last)
                                       ELSE None]
    /\ UNCHANGED <<tree, nav, phase, cur, rest, chain, params, matchFail, intercepted,
                   pending, slotAssignments, order, result, prev, browser, declared, pathname>>

\* The second resolution's slots (4.3) and its result.
OtherFinish ==
    /\ other.phase = "SlotResolution"
    /\ LET w     == other.walk
           ch    == <<"root">> \o w.chain
           slots == [s \in SlotsOf(tree, Nodes, ch) \cup {"children"} |->
                       IF s = "children"
                       THEN ChildrenOutcome(tree, Nodes, ch, w.last, w.ok, other.icpt, other.nav)
                       ELSE NamedSlotOutcome(tree, Nodes, s, other.nav.targetPath, other.icpt)]
           r     == MakeResult(tree, other.nav, ch, w.last, w.params, w.ok, other.icpt, slots)
       IN  other' = [other EXCEPT !.phase = r.status, !.result = r]
    /\ UNCHANGED <<tree, nav, phase, cur, rest, chain, params, matchFail, intercepted,
                   pending, slotAssignments, order, result, prev, browser, declared, pathname>>

\* The second caller asks for another navigation once it has its result.
OtherAgain(e) ==
    /\ other.phase \in {"Resolved", "NotFound"}
    /\ other.nav # e
    /\ other' = OtherFresh(e)
    /\ UNCHANGED <<tree, nav, phase, cur, rest, chain, params, matchFail, intercepted,
                   pending, slotAssignments, order, result, prev, browser, declared, pathname>>

ShareNext ==
    \/ StartMatching
    \/ MatchStep
    \/ MatchDone
    \/ InterceptCheck
    \/ \E s \in pending : ResolveSlot(s)
    \/ Finish
    \/ OtherMatch
    \/ OtherIntercept
    \/ OtherFinish
    \/ \E e \in ShareEvents : OtherAgain(e)

ShareSpec == ShareInit /\ [][ShareNext]_vars

\* C24: no step of any resolution changes the route tree, so the tree stays
\* the tree as built however many resolutions run on it and however their
\* steps interleave; and each resolution ends with the result it gives when
\* it runs alone on that tree.
C24_TreeReadOnly ==
    /\ [][tree' = tree]_vars
    /\ [](tree \in Trees)
    /\ [](Terminal => result = FullResolve(tree, nav))
    /\ [](other.phase \in {"Resolved", "NotFound"} => other.result = FullResolve(tree, other.nav))

\* Both resolutions have ended, the second one having matched its path while
\* the first was resolving its slots, each on a navigation of its own.
C24_Witness ==
    /\ Terminal /\ result.status = "Resolved"
    /\ other.phase = "Resolved" /\ other.during = "SlotResolution"
    /\ nav.targetPath = <<"complex-dashboard", "archived">>
    /\ other.nav.targetPath = <<"f1", "f2">> /\ other.icpt = "if2"

----------------------------------------------------------------------------
(* Building the tree.                                                      *)

NoTree == <<>>

\* Declarations the build refuses: featured/ renamed [featured] beside
\* [productId]; intro/ renamed [intro] beside [...slug]; intro/ moved under
\* [...slug].
TwoDynamic      == [BaseTree EXCEPT !["featured"].kind = "dynamic"]
DynamicCatchAll == [BaseTree EXCEPT !["intro"].kind = "dynamic"]
BelowCatchAll   == [BaseTree EXCEPT !["intro"].parent = "slug"]

Declarations == Trees \cup {TwoDynamic, DynamicCatchAll, BelowCatchAll}

\* The dynamic and catch-all children declared directly under n.
OpenKids(d, n) == { c \in Kids(d, DOMAIN d, n) : d[c].kind \in {"dynamic", "catchAll"} }

Ambiguous(d) == \E n \in DOMAIN d : Cardinality(OpenKids(d, n)) > 1

CatchAllNotLast(d) == \E n \in DOMAIN d : d[n].kind = "catchAll" /\ Kids(d, DOMAIN d, n) # {}

BuildInit ==
    /\ declared \in Declarations
    /\ tree = NoTree
    /\ nav \in { DirectNav(p) : p \in Paths }
    /\ phase = "Build"
    /\ cur = "root" /\ rest = <<>> /\ chain = <<>> /\ params = <<>>
    /\ matchFail = FALSE /\ intercepted = None
    /\ pending = {} /\ slotAssignments = <<>> /\ order = <<>>
    /\ result = NoResult
    /\ prev = NoResult
    /\ NoBrowser
    /\ other = NoOther /\ pathname = <<>>

\* A build that hands over the tree it was given even when it reports an error.
Build_PartialTree ==
    /\ phase = "Build"
    /\ tree' = declared
    /\ phase' = IF Ambiguous(declared) \/ CatchAllNotLast(declared) THEN "BuildError" ELSE "Idle"
    /\ UNCHANGED <<browser, aside, nav, cur, rest, chain, params, matchFail, intercepted,
                   pending, slotAssignments, order, result, prev>>

\* The tree is built once from the declaration; an ambiguous declaration or a
\* catch-all with something below it is a BuildError and leaves no tree.
Build ==
    /\ phase = "Build"
    /\ IF Ambiguous(declared) \/ CatchAllNotLast(declared)
       THEN phase' = "BuildError" /\ UNCHANGED tree
       ELSE phase' = "Idle" /\ tree' = declared
    /\ UNCHANGED <<browser, aside, nav, cur, rest, chain, params, matchFail, intercepted,
                   pending, slotAssignments, order, result, prev>>

BuildNext ==
    \/ Build
    \/ StartMatching
    \/ MatchStep
    \/ MatchDone
    \/ \E s \in pending : ResolveSlot(s)
    \/ Finish

BuildSpec == BuildInit /\ [][BuildNext]_vars

\* C25: a declaration in which some directory has more than one dynamic or
\* catch-all child, or a catch-all directory has a child, is refused: the
\* build ends in BuildError, there is no tree and no resolution starts; a
\* resolution runs only on the declaration built whole, in which every
\* directory has at most one dynamic-or-catch-all child and every catch-all
\* is the last of its branch.
C25_BuildError ==
    LET bad == \/ \E n \in Nodes : \E c1, c2 \in Kids(declared, Nodes, n) :
                     c1 # c2 /\ declared[c1].kind \in {"dynamic", "catchAll"}
                             /\ declared[c2].kind \in {"dynamic", "catchAll"}
               \/ \E n, c \in Nodes : declared[n].kind = "catchAll" /\ declared[c].parent = n
    IN  /\ (phase # "Build" /\ bad) => phase = "BuildError"
        /\ phase = "BuildError" => bad /\ tree = NoTree /\ result = NoResult /\ chain = <<>>
        /\ phase \notin {"Build", "BuildError"} =>
              /\ tree = declared
              /\ \A n \in Nodes :
                    /\ Cardinality({ c \in Nodes : tree[c].parent = n
                                                   /\ tree[c].kind \in {"dynamic", "catchAll"} }) <= 1
                    /\ tree[n].kind = "catchAll" => \A c \in Nodes : tree[c].parent # n

\* The declaration with intro/ under [...slug] refused, and nothing built.
C25_Witness ==
    /\ phase = "BuildError" /\ tree = NoTree
    /\ declared = BelowCatchAll /\ declared["intro"].parent = "slug"

----------------------------------------------------------------------------
(* Try Again.                                                              *)

\* The layouts of the route on screen.
LayoutsOf(t, ch) == { ch[i] : i \in { j \in DOMAIN ch : t[ch[j]].hasLayout } }

\* C27: Try Again is offered on the fallback of an error.tsx only; it leaves
\* the history alone, asks for the same route again and takes the fallback
\* off the screen, and what comes next on the screen comes from a new render
\* of that route, in which ErrorLayout may throw again: either the error is
\* back, handled by the same hierarchy, or no component threw and every
\* layout of the route shows its children; a screen without an error never
\* arises otherwise than from such a render.
C27_TryAgain ==
    /\ [][ (lastOp' # lastOp /\ lastOp'.op = "retry") =>
              /\ screen # NoScreen /\ screen.error # NoError
              /\ screen.error.handler # "global-error"
              /\ screen' = NoScreen /\ phase' = "Idle" /\ nav' = nav
              /\ history' = history /\ hpos' = hpos
              /\ layoutState' = layoutState
       ]_vars
    /\ [][ (screen' # screen /\ screen' # NoScreen) =>
              /\ screen = NoScreen /\ Terminal
              /\ screen'.url = result.url
       ]_vars
    /\ [](  (screen # NoScreen /\ lastOp.op = "retry") =>
              /\ screen.url = lastOp.from
              /\ \/ /\ screen.error = NoError
                    /\ DOMAIN screen.output = LayoutsOf(tree, result.chain)
                 \/ /\ screen.error # NoError
                    /\ screen.error.comp = "layout" => screen.error.node \notin DOMAIN screen.output
                    /\ screen.error.handler \in {"global-error", NearestBoundary(tree, screen.error.node),
                                                 NearestBoundary(tree, tree[screen.error.node].parent)} )

\* /error/error1 after Try Again: ErrorLayout did not throw this time and its
\* children are on the screen.
C27_Witness ==
    /\ screen # NoScreen /\ lastOp.op = "retry"
    /\ Location = <<"error", "error1">>
    /\ screen.error = NoError
    /\ "error1" \in DOMAIN screen.output

----------------------------------------------------------------------------
(* The review page.                                                        *)

\* Longest review id tried, in characters.
MaxIdLen == 5

\* The characters review ids are made of: decimal digits, a hexadecimal one,
\* the sign, a blank, the x of a 0x prefix and a letter.
IdChars == {"0", "1", "9", "f", "-", " ", "x"}

\* Numbers as parseInt gives them: NaN, or an integer.
NaN == [isNaN |-> TRUE, value |-> 0]
Number(i) == [isNaN |-> FALSE, value |-> i]

DigitValue(c) == IF c = "0" THEN 0 ELSE IF c = "1" THEN 1 ELSE IF c = "9" THEN 9
                 ELSE IF c = "f" THEN 15 ELSE 99

RECURSIVE SkipBlanks(_)
SkipBlanks(cs) == IF cs # <<>> /\ Head(cs) = " " THEN SkipBlanks(Tail(cs)) ELSE cs

\* The leading characters of cs that are digits in the radix.
RECURSIVE DigitPrefix(_, _)
DigitPrefix(cs, radix) ==
    IF cs # <<>> /\ DigitValue(Head(cs)) < radix
    THEN << Head(cs) >> \o DigitPrefix(Tail(cs), radix)
    ELSE <<>>

RECURSIVE ValueOf(_, _)
ValueOf(ds, radix) ==
    IF ds = <<>> THEN 0
    ELSE ValueOf(SubSeq(ds, 1, Len(ds) - 1), radix) * radix + DigitValue(ds[Len(ds)])

\* parseInt(string) of JavaScript: blanks skipped, a sign, 0x for radix 16,
\* then the digits up to the first character that is none; NaN without a digit.
ParseInt(cs) ==
    LET a     == SkipBlanks(cs)
        neg   == a # <<>> /\ Head(a) = "-"
        b     == IF neg THEN Tail(a) ELSE a
        hex   == Len(b) >= 2 /\ b[1] = "0" /\ b[2] = "x"
        radix == IF hex THEN 16 ELSE 10
        c     == IF hex THEN SubSeq(b, 3, Len(b)) ELSE b
        ds    == DigitPrefix(c, radix)
    IN  IF ds = <<>> THEN NaN
        ELSE IF neg THEN Number(0 - ValueOf(ds, radix)) ELSE Number(ValueOf(ds, radix))

\* NaN >= 1000 is false.
AtLeast(v, k) == ~v.isNaN /\ v.value >= k

NotFoundFrom == 1000

ReviewIds == UNION { [1..n -> IdChars] : n \in 1..MaxIdLen }

ReviewInit ==
    /\ tree = BrowserTree
    /\ nav = DirectNav(<<"products", "42", "reviews">>)
    /\ phase = "Resolved" /\ cur = "reviewId"
    /\ rest = <<>> /\ chain = <<>>
    /\ \E id \in ReviewIds : params = [productId |-> "42", reviewId |-> id]
    /\ matchFail = FALSE /\ intercepted = None
    /\ pending = {} /\ slotAssignments = <<>> /\ order = <<>>
    /\ result = NoResult
    /\ prev = NoResult
    /\ NoBrowser
    /\ NoAside

\* A page that shows review 1000 and refuses from 1001 on.
Review_Above ==
    /\ screen = NoScreen /\ "reviewId" \in DOMAIN params
    /\ screen' = IF AtLeast(ParseInt(params.reviewId), NotFoundFrom + 1)
                 THEN [status |-> "NotFound", boundary |-> NotFoundBoundary(tree, cur)]
                 ELSE [status |-> "Review", reviewId |-> params.reviewId, productId |-> params.productId]
    /\ UNCHANGED <<aside, tree, nav, phase, cur, rest, chain, params, matchFail, intercepted,
                   pending, slotAssignments, order, result, prev, history, hpos, lastOp,
                   layoutState, templateState>>

\* The page of /products/[productId]/reviews/[reviewId]: notFound() when
\* parseInt(reviewId) >= 1000, the review otherwise.
Review ==
    /\ screen = NoScreen /\ "reviewId" \in DOMAIN params
    /\ screen' = IF AtLeast(ParseInt(params.reviewId), NotFoundFrom)
                 THEN [status |-> "NotFound", boundary |-> NotFoundBoundary(tree, cur)]
                 ELSE [status |-> "Review", reviewId |-> params.reviewId, productId |-> params.productId]
    /\ UNCHANGED <<aside, tree, nav, phase, cur, rest, chain, params, matchFail, intercepted,
                   pending, slotAssignments, order, result, prev, history, hpos, lastOp,
                   layoutState, templateState>>

ReviewNext == Review

ReviewSpec == ReviewInit /\ [][ReviewNext]_vars

\* The review id starts, blanks apart, with the digits cs (no sign, no 0x).
StartsWithDigits(id, cs) ==
    LET a == SkipBlanks(id)
    IN  Len(a) >= Len(cs) /\ SubSeq(a, 1, Len(cs)) = cs

\* C28: the review page answers not-found exactly when the integer parsed from
\* reviewId is at least 1000, under the not-found.tsx of the review segment;
\* for every other reviewId (below 1000, negative, without a leading digit)
\* it shows the review with reviewId and productId as they came in the URL.
C28_ReviewNotFound ==
    screen # NoScreen =>
        LET id == params.reviewId
            v  == ParseInt(id)
        IN  /\ screen.status = "NotFound" <=> (~v.isNaN /\ v.value >= 1000)
            /\ screen.status = "NotFound" => screen.boundary = "reviewId"
            /\ screen.status # "NotFound" =>
                  screen = [status |-> "Review", reviewId |-> id, productId |-> params.productId]
            /\ (v = NaN \/ Head(SkipBlanks(id)) = "-") => screen.status = "Review"
            /\ StartsWithDigits(id, <<"1", "0", "0", "0">>) => screen.status = "NotFound"
            /\ id = <<"0", "x", "f", "f", "f">> => screen.status = "NotFound"
            /\ id \in { <<"9", "9", "9">>, <<"0", "9", "9", "9">>, <<"-", "1", "0", "0", "0">>,
                        <<"x", "1", "0", "0", "0">>, <<"9", "9", "9", " ", "1">>,
                        <<"0", "x", "f", "f">> } =>
                  screen.status = "Review"

\* Review 1000 of product 42 answered with not-found.
C28_Witness ==
    /\ screen # NoScreen /\ screen.status = "NotFound"
    /\ params.reviewId = <<"1", "0", "0", "0">> /\ params.productId = "42"

----------------------------------------------------------------------------
(* The navbar.                                                             *)

\* Longest pathname tried, in segments.
MaxSegs == 3

\* A text is a sequence of pieces: "/" or a run of characters without one.
\* The routes of Navbar and of AuthNavbar.
NavbarRoutes ==
    { <<"/">>, <<"/", "about">>, <<"/", "counter">>, <<"/", "blog">>, <<"/", "articles">>,
      <<"/", "order-product">>, <<"/", "products">>,
      <<"/", "docs", "/", "features", "/", "concept1">>,
      <<"/", "login">>, <<"/", "profile">>, <<"/", "_lib">>, <<"/", "_underscore-route">>,
      <<"/", "complex-dashboard">> }

AuthNavbarRoutes ==
    { <<"/">>, <<"/", "login">>, <<"/", "register">>, <<"/", "forgot-password">> }

\* Segments pathnames are made of: route names, names that go on after a
\* route's name (/aboutus, /login-help), and others.
Words ==
    { <<"about">>, <<"about", "us">>, <<"products">>, <<"1">>, <<"docs">>, <<"features">>,
      <<"concept1">>, <<"login">>, <<"login", "-help">>, <<"register">>, <<"_lib">> }

\* "/" + segment for each segment; "/" alone for none.
RECURSIVE Joined(_)
Joined(segs) == IF segs = <<>> THEN <<>> ELSE << "/" >> \o Head(segs) \o Joined(Tail(segs))

Pathnames ==
    { <<"/">> } \cup { Joined(segs) : segs \in UNION { [1..n -> Words] : n \in 1..MaxSegs } }

\* string.startsWith(prefix)
StartsWith(text, prefix) ==
    Len(text) >= Len(prefix) /\ SubSeq(text, 1, Len(prefix)) = prefix

\* The test without the "/" added to the route's path.
isActive_NoSlash(path, route) ==
    path = route \/ StartsWith(path, route)

\* pathname === route.path || pathname.startsWith(route.path + "/")
isActive(path, route) ==
    path = route \/ StartsWith(path, route \o << "/" >>)

NavbarInit ==
    /\ tree = BrowserTree
    /\ nav = DirectNav(<<>>)
    /\ Fresh
    /\ prev = NoResult
    /\ NoBrowser
    /\ other = NoOther /\ declared = None
    /\ pathname \in Pathnames

\* Both navbars rendered for the pathname: the entries marked active.
Navbar ==
    /\ screen = NoScreen /\ pathname # <<>>
    /\ screen' = [status |-> "Navbar",
                  active |-> { r \in NavbarRoutes : isActive(pathname, r) },
                  authActive |-> { r \in AuthNavbarRoutes : isActive(pathname, r) }]
    /\ UNCHANGED <<aside, tree, nav, phase, cur, rest, chain, params, matchFail, intercepted,
                   pending, slotAssignments, order, result, prev, history, hpos, lastOp,
                   layoutState, templateState>>

NavbarNext == Navbar

NavbarSpec == NavbarInit /\ [][NavbarNext]_vars

\* The segments of a text: the pieces between its "/"s, joined again.
RECURSIVE SegmentsOf(_)
SegmentsOf(text) ==
    IF text = <<>> \/ text = << "/" >> THEN <<>>
    ELSE LET ends == { k \in 2..Len(text) : k = Len(text) \/ text[k + 1] = "/" }
             e    == CHOOSE k \in ends : \A j \in ends : k <= j
         IN  << SubSeq(text, 2, e) >> \o SegmentsOf(SubSeq(text, e + 1, Len(text)))

\* C29: for every pathname each navbar marks at most one entry active; an entry
\* is active iff the pathname is its path or lies below it (its path followed
\* by "/" and more), so a name that merely goes on after a route's name does
\* not mark it; Home is active on "/" only.
C29_OneActive ==
    screen # NoScreen =>
        /\ Cardinality(screen.active) <= 1
        /\ Cardinality(screen.authActive) <= 1
        /\ \A r \in NavbarRoutes \cup AuthNavbarRoutes :
              LET in  == IF r \in NavbarRoutes THEN r \in screen.active ELSE r \in screen.authActive
                  rs  == SegmentsOf(r)
                  ps  == SegmentsOf(pathname)
              IN  /\ in <=> /\ Len(ps) >= Len(rs) /\ SubSeq(ps, 1, Len(rs)) = rs
                            /\ rs = <<>> => ps = <<>>
                  /\ r \in NavbarRoutes \cap AuthNavbarRoutes =>
                        (r \in screen.active <=> r \in screen.authActive)
        /\ (<<"/">> \in screen.active \/ <<"/">> \in screen.authActive) <=> pathname = <<"/">>

\* /products/1 marks Products, and Products only.
C29_Witness ==
    /\ screen # NoScreen
    /\ pathname = <<"/", "products", "/", "1">>
    /\ screen.active = { <<"/", "products">> }

====
